---- MODULE Spec2Model ----
(***************************************************************************)
(* Model of the 40bpp animated blitter (src/blitter/40bpp_anim.cpp).       *)
(*                                                                         *)
(* The screen is two parallel buffers addressed by the same pixel offset:  *)
(* the colour buffer (one 32 bit Colour per pixel) and the animation       *)
(* buffer (one byte per pixel).  Pointers are modelled as pixel offsets    *)
(* from _screen.dst_ptr, respectively from the start of the animation      *)
(* buffer.                                                                 *)
(***************************************************************************)
EXTENDS Integers, Sequences, FiniteSets, TLC

(***************************************************************************)
(* Bounds of the model.                                                    *)
(***************************************************************************)
\* Width of the sprites that are drawn.
SprW == 4
\* Height of the sprites that are drawn.
SprH == 2

\* _screen.pitch and the number of screen rows: one column more than the
\* widest sprite, so that a draw can start in column 0 or 1.
Pitch == SprW + 1
ScrH == SprH + 1
ScrSize == Pitch * ScrH

(***************************************************************************)
(* Colour: union { uint32_t data; struct { uint8_t b, g, r, a; } }.        *)
(***************************************************************************)
MkColour(r, g, b, a) == [b |-> b, g |-> g, r |-> r, a |-> a]
ColB(c) == c.b
ColG(c) == c.g
ColR(c) == c.r
ColA(c) == c.a

\* The bytes of a 32 bit word in memory order (little endian), and the value
\* of the word a Colour shares its storage with.
WordBytes(c) == <<c.b, c.g, c.r, c.a>>
BytesWord(s) == [b |-> s[1], g |-> s[2], r |-> s[3], a |-> s[4]]
WordValue(c) == c.b + 256 * c.g + 65536 * c.r + 16777216 * c.a
ValueWord(v) == [b |-> v % 256, g |-> (v \div 256) % 256, r |-> (v \div 65536) % 256,
                 a |-> (v \div 16777216) % 256]

\* static const Colour _black_colour(0, 0, 0): alpha defaults to 255.
BlackColour == MkColour(0, 0, 0, 255)

Min(a, b) == IF a < b THEN a ELSE b
Max(a, b) == IF a > b THEN a ELSE b

\* GB(x, 0, 8)
GB8(x) == x % 256

(***************************************************************************)
(* Colour primitives of the base blitter (32bpp_base.hpp, 40bpp_anim.hpp). *)
(***************************************************************************)
\* The current palette: index -> Colour.
LookupColourInPalette(i) ==
    MkColour((i * 37) % 256, (i * 59 + 20) % 256, (i * 83 + 40) % 256, 255)

\* Brightness of a colour: the largest channel.
GetColourBrightness(c) == Max(ColR(c), Max(ColG(c), ColB(c)))

\* The colour that is on screen for an animation byte and a stored colour.
RealizeBlendedColour(anim, c) == IF anim = 0 THEN c ELSE LookupColourInPalette(anim)

\* out = current + (src - current) * a / 256 per channel, C++ division
\* truncating towards zero.
BlendChan(s, cur, a) ==
    IF s >= cur THEN cur + ((s - cur) * a) \div 256
                ELSE cur - (((cur - s) * a) \div 256)

ComposeColourRGBANoCheck(r, g, b, a, cur) ==
    MkColour(BlendChan(r, ColR(cur), a), BlendChan(g, ColG(cur), a),
             BlendChan(b, ColB(cur), a), 255)

ComposeColourPANoCheck(c, a, cur) ==
    ComposeColourRGBANoCheck(ColR(c), ColG(c), ColB(c), a, cur)

\* Scale the brightness of a colour by nom / denom.
MakeTransparent(c, nom, denom) ==
    MkColour((ColR(c) * nom) \div denom, (ColG(c) * nom) \div denom,
             (ColB(c) * nom) \div denom, 255)

\* Darkened grey level of a colour.
MakeDark(c) ==
    LET d == (ColR(c) * 13063 + ColG(c) * 25647 + ColB(c) * 4981) \div 65536
    IN  MkColour(d, d, d, 255)

\* Indices of the palette the model looks colours up in.
PalIdx == 0 .. 3

ColDist(c, d) ==
    LET Abs(x) == IF x < 0 THEN -x ELSE x
    IN  Abs(ColR(c) - ColR(d)) + Abs(ColG(c) - ColG(d)) + Abs(ColB(c) - ColB(d))

\* Index of the palette colour nearest to c (lowest index on a tie).
GetNearestColourIndex(c) ==
    CHOOSE i \in PalIdx :
        \A j \in PalIdx :
            \/ ColDist(c, LookupColourInPalette(i)) < ColDist(c, LookupColourInPalette(j))
            \/ /\ ColDist(c, LookupColourInPalette(i)) = ColDist(c, LookupColourInPalette(j))
               /\ i <= j

(***************************************************************************)
(* The encoded sprite (one zoom level): two streams.                       *)
(*   spx  : 32 bit words (as Colours).  Each line starts with its length   *)
(*          in bytes,                                                      *)
(*          followed by one Colour per opaque or translucent pixel and one *)
(*          placeholder Colour (a = 0) per fully transparent run.          *)
(*   srcn : 16 bit words.  Each line starts with its length in bytes (32   *)
(*          bit, two words), followed per run by the run length n and then *)
(*          the m values of the run (one placeholder for a transparent     *)
(*          run).                                                          *)
(* A source pixel is a record [a, m, c], c being the Colour with alpha a.  *)
(***************************************************************************)
\* Alpha class of a pixel: 0 transparent, 255 opaque, 1 translucent.
AlphaClass(a) == IF a > 0 /\ a < 255 THEN 1 ELSE a

\* Length of the first run of a line: the pixels sharing the alpha class of
\* the first one.
RECURSIVE RunLen(_)
RunLen(pixels) ==
    IF Len(pixels) <= 1 THEN Len(pixels)
    ELSE IF AlphaClass(pixels[2].a) = AlphaClass(pixels[1].a)
         THEN 1 + RunLen(Tail(pixels))
         ELSE 1

\* The Colours a line of pixels contributes to spx.
RECURSIVE EncodePx(_)
EncodePx(pixels) ==
    IF pixels = << >> THEN << >>
    ELSE LET n == RunLen(pixels)
             rest == SubSeq(pixels, n + 1, Len(pixels))
         IN  IF pixels[1].a = 0
             THEN <<MkColour(0, 0, 0, 0)>> \o EncodePx(rest)
             ELSE [i \in 1 .. n |-> pixels[i].c] \o EncodePx(rest)

\* The words a line of pixels contributes to srcn.
RECURSIVE EncodeN(_)
EncodeN(pixels) ==
    IF pixels = << >> THEN << >>
    ELSE LET n == RunLen(pixels)
             rest == SubSeq(pixels, n + 1, Len(pixels))
         IN  IF pixels[1].a = 0
             THEN <<n, pixels[1].m>> \o EncodeN(rest)
             ELSE <<n>> \o [i \in 1 .. n |-> pixels[i].m] \o EncodeN(rest)

EncodePxLine(pixels) ==
    LET body == EncodePx(pixels) IN <<ValueWord(4 * (1 + Len(body)))>> \o body

EncodeNLine(pixels) ==
    LET body == EncodeN(pixels)
        bytes == 2 * (2 + Len(body))
    IN  <<bytes % 65536, bytes \div 65536>> \o body

RECURSIVE EncodeSpx(_)
EncodeSpx(rows) ==
    IF rows = << >> THEN << >> ELSE EncodePxLine(Head(rows)) \o EncodeSpx(Tail(rows))

RECURSIVE EncodeSrcN(_)
EncodeSrcN(rows) ==
    IF rows = << >> THEN << >> ELSE EncodeNLine(Head(rows)) \o EncodeSrcN(Tail(rows))

(***************************************************************************)
(* Blitter_40bppAnim::Draw<mode>(bp, zoom).                                *)
(*                                                                         *)
(* bp = [spx, srcn, dst, pitch, top, left, skip_top, skip_left, width,     *)
(*       height, remap]; bp.dst is the offset of bp->dst from              *)
(* _screen.dst_ptr.  The cursors are kept in a record                      *)
(*   [dst, anim, px, sn, vid, animb, fault, log]                           *)
(* where px and sn are word offsets into spx and srcn, vid and animb the   *)
(* colour and the animation buffer, fault says whether a cursor left its   *)
(* buffer, and log records, for every pass of a composing loop, the two    *)
(* destination cursors and the run counter n at the start of the pass.     *)
(***************************************************************************)
Modes == {"Normal", "ColourRemap", "Transparent", "TransparentRemap",
          "CrashRemap", "BlackRemap"}

InBuf(b, o) == o \in DOMAIN b
InPx(bp, o) == o >= 0 /\ o < Len(bp.spx)
InN(bp, o) == o >= 0 /\ o < Len(bp.srcn)

\* *src_px, *src_n and *(const uint32_t *)src_n at a word offset.
PxAt(bp, o) == bp.spx[o + 1]
NAt(bp, o) == bp.srcn[o + 1]
Len32N(bp, o) == NAt(bp, o) + 65536 * NAt(bp, o + 1)

\* The cursors after one pixel: anim++, dst++, and src_px++, src_n++ as told.
Advance(s, dpx, dsn) ==
    [s EXCEPT !.anim = s.anim + 1, !.dst = s.dst + 1, !.px = s.px + dpx, !.sn = s.sn + dsn]

\* Mutant of OpRemapOpaque: a remap entry of 0 is written like any other.
OpRemapOpaqueMut(mode, bp, s) ==
    LET m == GB8(NAt(bp, s.sn))
        spix == PxAt(bp, s.px)
        adv == Advance(s, 1, 1)
    IN  IF m = 0
        THEN [adv EXCEPT !.vid[s.dst] = IF mode = "CrashRemap" THEN MakeDark(spix) ELSE spix,
                         !.animb[s.anim] = 0]
        ELSE [adv EXCEPT !.vid[s.dst] = spix, !.animb[s.anim] = bp.remap[m]]

\* Mutant of OpRemapOpaque: the animation byte is set to m, not to remap[m].
OpRemapOpaqueMutM(mode, bp, s) ==
    LET m == GB8(NAt(bp, s.sn))
        spix == PxAt(bp, s.px)
        adv == Advance(s, 1, 1)
    IN  IF m = 0
        THEN [adv EXCEPT !.vid[s.dst] = IF mode = "CrashRemap" THEN MakeDark(spix) ELSE spix,
                         !.animb[s.anim] = 0]
        ELSE IF bp.remap[m] # 0
             THEN [adv EXCEPT !.vid[s.dst] = spix, !.animb[s.anim] = m]
             ELSE adv

\* ColourRemap / CrashRemap, run with a == 255: one pass of lines 187-204.
OpRemapOpaque(mode, bp, s) ==
    LET m == GB8(NAt(bp, s.sn))
        spix == PxAt(bp, s.px)
        adv == Advance(s, 1, 1)
    IN  IF m = 0
        THEN [adv EXCEPT !.vid[s.dst] = IF mode = "CrashRemap" THEN MakeDark(spix) ELSE spix,
                         !.animb[s.anim] = 0]
        ELSE LET r == bp.remap[m] IN
             IF r # 0
             THEN [adv EXCEPT !.vid[s.dst] = spix, !.animb[s.anim] = r]
             ELSE adv

\* Mutant of OpRemapBlend: the blended pixel keeps the remapped animation
\* byte, as the opaque one does.
OpRemapBlendMut(mode, bp, s) ==
    LET m == GB8(NAt(bp, s.sn))
        spix == PxAt(bp, s.px)
        adv == Advance(s, 1, 1)
        b == RealizeBlendedColour(s.animb[s.anim], s.vid[s.dst])
    IN  IF m = 0
        THEN LET c == IF mode = "CrashRemap" THEN MakeDark(spix) ELSE spix
             IN  [adv EXCEPT !.vid[s.dst] =
                                 ComposeColourRGBANoCheck(ColR(c), ColG(c), ColB(c), ColA(spix), b),
                             !.animb[s.anim] = 0]
        ELSE LET r == bp.remap[m] IN
             IF r # 0
             THEN [adv EXCEPT !.vid[s.dst] =
                                  ComposeColourPANoCheck(LookupColourInPalette(r), ColA(spix), b),
                              !.animb[s.anim] = r]
             ELSE adv

\* ColourRemap / CrashRemap, translucent run: one pass of lines 206-224.
OpRemapBlend(mode, bp, s) ==
    LET m == GB8(NAt(bp, s.sn))
        spix == PxAt(bp, s.px)
        adv == Advance(s, 1, 1)
        b == RealizeBlendedColour(s.animb[s.anim], s.vid[s.dst])
    IN  IF m = 0
        THEN LET c == IF mode = "CrashRemap" THEN MakeDark(spix) ELSE spix
             IN  [adv EXCEPT !.vid[s.dst] =
                                 ComposeColourRGBANoCheck(ColR(c), ColG(c), ColB(c), ColA(spix), b),
                             !.animb[s.anim] = 0]
        ELSE LET r == bp.remap[m] IN
             IF r # 0
             THEN [adv EXCEPT !.vid[s.dst] =
                                  ComposeColourPANoCheck(LookupColourInPalette(r), ColA(spix), b),
                              !.animb[s.anim] = 0]
             ELSE adv

\* Mutant of OpBlackRemap: the animation byte is left as it is.
OpBlackRemapMut(s) ==
    [Advance(s, 1, 1) EXCEPT !.vid[s.dst] = BlackColour]

\* BlackRemap: one pass of lines 229-234.
OpBlackRemap(s) ==
    [Advance(s, 1, 1) EXCEPT !.animb[s.anim] = 0, !.vid[s.dst] = BlackColour]

\* Mutant of OpTransparentOpaque: the darkened pixel loses its animation
\* byte.
OpTransparentOpaqueMut(s) ==
    LET b == IF s.animb[s.anim] # 0
             THEN MkColour(GetColourBrightness(s.vid[s.dst]), 0, 0, 255)
             ELSE s.vid[s.dst]
    IN  [Advance(s, 0, 0) EXCEPT !.vid[s.dst] = MakeTransparent(b, 3, 4),
                                 !.animb[s.anim] = 0]

\* Transparent, run with a == 255: one pass of lines 242-250.
OpTransparentOpaque(s) ==
    LET b == IF s.animb[s.anim] # 0
             THEN MkColour(GetColourBrightness(s.vid[s.dst]), 0, 0, 255)
             ELSE s.vid[s.dst]
    IN  [Advance(s, 0, 0) EXCEPT !.vid[s.dst] = MakeTransparent(b, 3, 4)]

\* Transparent, translucent run: one pass of lines 252-259.
OpTransparentBlend(bp, s) ==
    LET b == RealizeBlendedColour(s.animb[s.anim], s.vid[s.dst])
    IN  [Advance(s, 1, 0) EXCEPT
            !.vid[s.dst] = MakeTransparent(b, 256 * 4 - ColA(PxAt(bp, s.px)), 256 * 4),
            !.animb[s.anim] = 0]

\* Mutant of OpTransparentRemap: the table is indexed with the m of the
\* source pixel instead of the animation byte of the destination.
OpTransparentRemapMut(bp, s) ==
    LET a0 == s.animb[s.anim] IN
    IF a0 # 0
    THEN [Advance(s, 0, 0) EXCEPT !.animb[s.anim] = bp.remap[GB8(NAt(bp, s.sn - 1))]]
    ELSE [Advance(s, 0, 0) EXCEPT
            !.vid[s.dst] = LookupColourInPalette(bp.remap[GetNearestColourIndex(s.vid[s.dst])]),
            !.animb[s.anim] = 0]

\* TransparentRemap: one pass of lines 268-277.
OpTransparentRemap(bp, s) ==
    LET a0 == s.animb[s.anim] IN
    IF a0 # 0
    THEN [Advance(s, 0, 0) EXCEPT !.animb[s.anim] = bp.remap[a0]]
    ELSE [Advance(s, 0, 0) EXCEPT
            !.vid[s.dst] = LookupColourInPalette(bp.remap[GetNearestColourIndex(s.vid[s.dst])]),
            !.animb[s.anim] = 0]

\* Mutant of OpNormalOpaque: the animation byte is cleared instead of set
\* to m.
OpNormalOpaqueMut(bp, s) ==
    [Advance(s, 1, 1) EXCEPT !.animb[s.anim] = 0, !.vid[s.dst] = PxAt(bp, s.px)]

\* Normal, run with a == 255: one pass of lines 287-292.
OpNormalOpaque(bp, s) ==
    [Advance(s, 1, 1) EXCEPT !.animb[s.anim] = GB8(NAt(bp, s.sn)),
                             !.vid[s.dst] = PxAt(bp, s.px)]

\* Normal, translucent run: one pass of lines 295-311.
OpNormalBlend(bp, s) ==
    LET m == GB8(NAt(bp, s.sn))
        spix == PxAt(bp, s.px)
        b == RealizeBlendedColour(s.animb[s.anim], s.vid[s.dst])
    IN  IF m = 0
        THEN [Advance(s, 1, 1) EXCEPT
                !.vid[s.dst] = ComposeColourRGBANoCheck(ColR(spix), ColG(spix), ColB(spix),
                                                        ColA(spix), b),
                !.animb[s.anim] = 0]
        ELSE [Advance(s, 1, 1) EXCEPT
                !.vid[s.dst] = ComposeColourPANoCheck(LookupColourInPalette(m), ColA(spix), b),
                !.animb[s.anim] = m]

\* One pass of the body of a `do { ... } while (--n != 0)` loop of the mode
\* switch, for a run that started opaque (a == 255) or not.  A cursor that is
\* dereferenced outside its buffer is recorded as a fault.
PixelOp(mode, opaque, bp, s) ==
    IF ~InBuf(s.vid, s.dst) \/ ~InBuf(s.animb, s.anim) THEN [s EXCEPT !.fault = "oob"]
    ELSE IF mode = "TransparentRemap" THEN OpTransparentRemap(bp, s)
    ELSE IF mode = "Transparent" /\ opaque THEN OpTransparentOpaque(s)
    ELSE IF ~InPx(bp, s.px) THEN [s EXCEPT !.fault = "oob"]
    ELSE IF mode = "Transparent" THEN OpTransparentBlend(bp, s)
    ELSE IF mode = "BlackRemap" THEN OpBlackRemap(s)
    ELSE IF ~InN(bp, s.sn) THEN [s EXCEPT !.fault = "oob"]
    ELSE IF mode \in {"ColourRemap", "CrashRemap"}
         THEN (IF opaque THEN OpRemapOpaque(mode, bp, s) ELSE OpRemapBlend(mode, bp, s))
         ELSE (IF opaque THEN OpNormalOpaque(bp, s) ELSE OpNormalBlend(bp, s))

\* do { PixelOp } while (--n != 0), n being a uint.  A counter that is 0 on
\* entry wraps to 2^32 - 1 and the loop goes on for more passes than any
\* buffer holds pixels: the model keeps such a counter negative, so that it
\* is never 0 again, and the loop ends when a cursor leaves its buffer.
RECURSIVE RunLoop(_, _, _, _, _)
RunLoop(mode, opaque, bp, s, n) ==
    LET s0 == [s EXCEPT !.log = Append(s.log, [dst |-> s.dst, anim |-> s.anim, n |-> n])]
        s1 == PixelOp(mode, opaque, bp, s0)
        n1 == n - 1
    IN  IF s1.fault # "none" \/ n1 = 0 THEN s1
        ELSE RunLoop(mode, opaque, bp, s1, n1)

\* The mode switch at label draw (lines 183-313) for a run of n pixels whose
\* first pixel has a != 0.
ComposeRun(mode, bp, s, n) ==
    IF ~InPx(bp, s.px) THEN [s EXCEPT !.fault = "oob"]
    ELSE
    LET a == ColA(PxAt(bp, s.px)) IN
    IF mode = "Transparent" THEN
        LET s1 == [s EXCEPT !.sn = s.sn + n] IN
        IF a = 255
        THEN RunLoop(mode, TRUE, bp, [s1 EXCEPT !.px = s.px + n], n)
        ELSE RunLoop(mode, FALSE, bp, s1, n)
    ELSE IF mode = "TransparentRemap" THEN
        LET s1 == [s EXCEPT !.sn = s.sn + n, !.px = s.px + n] IN
        IF a # 0
        THEN RunLoop(mode, TRUE, bp, s1, n)
        ELSE [s1 EXCEPT !.dst = s.dst + n, !.anim = s.anim + n]
    ELSE RunLoop(mode, a = 255, bp, s, n)

\* Mutant of RunCount: a run is not cut at the right clip boundary.
RunCountMut(n, dst, dst_end) == n

\* Line 171: the pixels of a run of n that are left of dst_end.
RunCount(n, dst, dst_end) == Min(n, dst_end - dst)

\* The second while loop of a row (lines 170-314): compose up to dst_end.
RECURSIVE DrawLoop(_, _, _, _)
DrawLoop(mode, bp, s, dst_end) ==
    IF s.fault # "none" \/ ~(s.dst < dst_end) THEN s
    ELSE IF ~InN(bp, s.sn) \/ ~InPx(bp, s.px) THEN [s EXCEPT !.fault = "oob"]
    ELSE
        LET n == RunCount(NAt(bp, s.sn), s.dst, dst_end)
            s1 == [s EXCEPT !.sn = s.sn + 1]
        IN  IF ColA(PxAt(bp, s.px)) = 0
            THEN DrawLoop(mode, bp,
                          [s1 EXCEPT !.anim = s.anim + n, !.dst = s.dst + n,
                                     !.px = s.px + 1, !.sn = s1.sn + 1],
                          dst_end)
            ELSE DrawLoop(mode, bp, ComposeRun(mode, bp, s1, n), dst_end)

\* Mutant of SkipAnim: the animation cursor is not moved with the colour
\* cursor.
SkipAnimMut(dst, dst_end, anim) == anim

\* Mutant of SkipAnim: the distance to the clip boundary is added without
\* the test, also when the run ends left of the boundary.
SkipAnimMutNoTest(dst, dst_end, anim) == anim + (dst - dst_end)

\* Line 146: the animation cursor after a transparent run that ends beyond
\* the left clip boundary.
SkipAnim(dst, dst_end, anim) == IF dst > dst_end THEN anim + (dst - dst_end) ELSE anim

\* Mutant of StraddleCount: the skipped part of the run is not taken off.
StraddleCountMut(n, d, width) == Min(n, width)

\* Line 156: what is left to draw of a run that straddles the left clip
\* boundary, d pixels of it being skipped.
StraddleCount(n, d, width) == Min(n - d, width)

\* The first while loop of a row (lines 138-168): skip skip_left pixels, then
\* continue with the second loop, through `goto draw` when a run that is not
\* transparent straddles the left clip boundary.
RECURSIVE SkipLoop(_, _, _, _)
SkipLoop(mode, bp, s, dst_end) ==
    IF ~(s.dst < dst_end)
    THEN DrawLoop(mode, bp, [s EXCEPT !.dst = s.dst - bp.skip_left],
                  dst_end - bp.skip_left + bp.width)
    ELSE IF ~InN(bp, s.sn) \/ ~InPx(bp, s.px) THEN [s EXCEPT !.fault = "oob"]
    ELSE
        LET n == NAt(bp, s.sn)
            s1 == [s EXCEPT !.sn = s.sn + 1]
        IN  IF ColA(PxAt(bp, s.px)) = 0
            THEN SkipLoop(mode, bp,
                          [s1 EXCEPT !.dst = s.dst + n, !.px = s.px + 1, !.sn = s1.sn + 1,
                                     !.anim = SkipAnim(s.dst + n, dst_end, s.anim)],
                          dst_end)
            ELSE IF s.dst + n > dst_end
            THEN LET d == dst_end - s.dst
                     dst0 == dst_end - bp.skip_left
                     s2 == [s1 EXCEPT !.px = s.px + d, !.sn = s1.sn + d, !.dst = dst0]
                 IN  DrawLoop(mode, bp, ComposeRun(mode, bp, s2, StraddleCount(n, d, bp.width)),
                              dst0 + bp.width)
            ELSE SkipLoop(mode, bp,
                          [s1 EXCEPT !.dst = s.dst + n, !.px = s.px + n, !.sn = s1.sn + n],
                          dst_end)

\* The row loop (lines 119-320), y rows still to draw.
RECURSIVE DrawRows(_, _, _, _)
DrawRows(mode, bp, s, y) ==
    IF y = 0 \/ s.fault # "none" THEN s
    ELSE IF ~InPx(bp, s.px) \/ ~InN(bp, s.sn + 1) THEN [s EXCEPT !.fault = "oob"]
    ELSE
        LET dst_ln == s.dst + bp.pitch
            anim_ln == s.anim + bp.pitch
            src_px_ln == s.px + WordValue(PxAt(bp, s.px)) \div 4
            src_n_ln == s.sn + Len32N(bp, s.sn) \div 2
            s1 == SkipLoop(mode, bp, [s EXCEPT !.px = s.px + 1, !.sn = s.sn + 2],
                           s.dst + bp.skip_left)
        IN  DrawRows(mode, bp,
                     [s1 EXCEPT !.dst = dst_ln, !.anim = anim_ln,
                                !.px = src_px_ln, !.sn = src_n_ln],
                     y - 1)

\* Skip the upper lines of the sprite (lines 106-109): cursor offsets <<px, sn>>.
RECURSIVE SkipTop(_, _, _, _)
SkipTop(bp, px, sn, i) ==
    IF i = 0 THEN <<px, sn>>
    ELSE SkipTop(bp, px + WordValue(PxAt(bp, px)) \div 4, sn + Len32N(bp, sn) \div 2, i - 1)

\* Draw<mode>(bp, zoom) on the buffers vid and animb: the cursor record at the
\* end of the row loop.
DrawMode(mode, bp, vid, animb) ==
    LET src == SkipTop(bp, 0, 0, bp.skip_top)
        dst == bp.dst + bp.top * bp.pitch + bp.left
    IN  DrawRows(mode, bp,
                 [dst |-> dst, anim |-> dst, px |-> src[1], sn |-> src[2],
                  vid |-> vid, animb |-> animb, fault |-> "none", log |-> << >>],
                 bp.height)

(***************************************************************************)
(* Blitter_32bppOptimized::Draw<true>(bp, mode, zoom), the blitter without *)
(* animation: same sprite format, writes the colour buffer only; its       *)
(* result is that of an animated draw on animation bytes that are all 0.   *)
(***************************************************************************)
Draw32(mode, bp, vid) ==
    DrawMode(mode, bp, vid, [i \in 0 .. ScrSize - 1 |-> 0]).vid

(***************************************************************************)
(* The inputs of the model: sprites, remap tables, screen contents.        *)
(***************************************************************************)
\* Alpha class of every pixel of the first sprite line: transparent, opaque,
\* translucent, in at most three runs.  Line y has the pattern rotated left by
\* y - 1 pixels.
Classes == {"T", "O", "L"}
Patterns ==
    {p \in [1 .. SprW -> Classes] :
        Cardinality({x \in 1 .. SprW - 1 : p[x] # p[x + 1]}) <= 2}

\* The colours sprites are made of.
SrcColour(i, a) ==
    IF i % 4 = 0 THEN MkColour(200, 100, 40, a)
    ELSE IF i % 4 = 1 THEN MkColour(16, 32, 64, a)
    ELSE IF i % 4 = 2 THEN MkColour(0, 255, 7, a)
    ELSE MkColour(120, 0, 250, a)

\* Number of opaque pixels of a pattern: varies the m values between sprites.
\* The wholly opaque sprite has m = 0 throughout.
Opaques(pat) == Cardinality({x \in 1 .. SprW : pat[x] = "O"})
SrcM(pat, x, y) == IF Opaques(pat) = SprW THEN 0 ELSE (x + y + Opaques(pat)) % 3

SrcPixel(pat, x, y) ==
    LET cls == pat[((x + y - 2) % SprW) + 1]
        a == IF cls = "T" THEN 0
             ELSE IF cls = "O" THEN 255
             ELSE IF (x + y) % 2 = 0 THEN 64 ELSE 192
    IN  [a |-> a, m |-> SrcM(pat, x, y), c |-> SrcColour(x + Opaques(pat), a)]

\* The sprite of a pattern: SprH lines of SprW source pixels.
SpriteRows(pat) == [y \in 1 .. SprH |-> [x \in 1 .. SprW |-> SrcPixel(pat, x, y)]]

\* The caller's remap tables: each has an entry 0 for a non-zero index.
RemapEntry(k, i) ==
    IF k = 0 THEN (IF i = 1 THEN 0 ELSE IF i = 2 THEN 3 ELSE IF i = 3 THEN 1 ELSE i)
             ELSE (IF i = 1 THEN 2 ELSE IF i = 2 THEN 0 ELSE i)
RemapTable(k) == [i \in 0 .. 255 |-> RemapEntry(k, i)]

\* The remap table a sprite is drawn with.
RemapId(pat) == Cardinality({x \in 1 .. SprW : pat[x] = "T"}) % 2
RemapOf(pat) == RemapTable(RemapId(pat))

\* What is on the screen before an operation.
SceneColour(i) ==
    IF i % 3 = 0 THEN MkColour(90, 180, 30, 255)
    ELSE IF i % 3 = 1 THEN LookupColourInPalette(2)
    ELSE MkColour(250, 250, 250, 255)
SceneVid == [i \in 0 .. ScrSize - 1 |-> SceneColour(i)]
SceneAnim == [i \in 0 .. ScrSize - 1 |-> (i * 2 + i \div 3) % 4]

(***************************************************************************)
(* The state.                                                              *)
(***************************************************************************)
VARIABLES
    vid,          \* the colour buffer at _screen.dst_ptr, by pixel offset
    animb,        \* the animation buffer, by pixel offset
    animNull,     \* VideoDriver::GetInstance()->GetAnimBuffer() == nullptr
    disableAnim,  \* _screen_disable_anim
    buf,          \* the caller's buffer of CopyToBuffer / CopyFromBuffer, in bytes
    cap,          \* what the screen held when buf was filled
    fault,        \* "none", or how the process ended
    last,         \* the last operation: its name, arguments and the screen before it
    iconsole_mode,    \* _iconsole_mode
    conWindows,       \* the windows of class WC_CONSOLE, each with its height
    iconsole_buffer,  \* _iconsole_buffer: the time of every backlog line, newest first
    scroll,           \* IConsoleWindow::scroll
    conLast,          \* the last console operation and the mode before it
    iconsole_history,     \* _iconsole_history, newest first
    iconsole_cmdline,     \* the text of _iconsole_cmdline, a sequence of characters
    iconsole_historypos,  \* _iconsole_historypos
    orders,                    \* the order list of a vehicle: for each order, whether
                               \* it is of type OT_IMPLICIT
    cur_real_order_index,      \* Vehicle::cur_real_order_index
    cur_implicit_order_index,  \* Vehicle::cur_implicit_order_index
    ordLast                    \* the last operation on the order indices

\* The variables of the screen, of the command history, of the console, of a
\* vehicle, and all variables.
bvars == <<vid, animb, animNull, disableAnim, buf, cap, fault, last>>
hvars == <<iconsole_history, iconsole_cmdline, iconsole_historypos>>
cvars == <<iconsole_mode, conWindows, iconsole_buffer, scroll, conLast, hvars>>
ovars == <<orders, cur_real_order_index, cur_implicit_order_index, ordLast>>
vars == <<bvars, cvars, ovars>>

NoOp == [op |-> "none"]
NoCap == [set |-> FALSE]

\* IConsoleGUIInit(), lines 383-395: the console is closed and the backlog
\* holds the four lines of the banner; IConsoleWindow::scroll is 0 (line 381).
\* The command history is empty and the command line is cleared (lines 112,
\* 386, 394).
IConsoleGUIInit ==
    /\ iconsole_mode = "ICONSOLE_CLOSED"
    /\ conWindows = << >>
    /\ iconsole_buffer = <<0, 0, 0, 0>>
    /\ scroll = 0
    /\ conLast = NoOp
    /\ iconsole_history = << >>
    /\ iconsole_cmdline = << >>
    /\ iconsole_historypos = -1

\* A vehicle without orders.
NoVehicle ==
    /\ orders = << >>
    /\ cur_real_order_index = 0
    /\ cur_implicit_order_index = 0
    /\ ordLast = NoOp

\* The screen as the video driver hands it over, with the animation buffer
\* enabled, disabled or missing.
InitScreen ==
    /\ IConsoleGUIInit
    /\ NoVehicle
    /\ vid = SceneVid
    /\ disableAnim \in BOOLEAN
    /\ animNull \in BOOLEAN
    /\ animb = IF animNull THEN [i \in 0 .. ScrSize - 1 |-> 0] ELSE SceneAnim
    /\ buf = << >>
    /\ cap = NoCap
    /\ fault = "none"
    /\ last = NoOp

\* The window contents are discarded and painted anew before the next
\* operation the model looks at.
Repaint ==
    /\ last.op # "none"
    /\ vid' = SceneVid
    /\ animb' = IF animNull THEN animb ELSE SceneAnim
    /\ buf' = << >>
    /\ cap' = NoCap
    /\ fault' = "none"
    /\ last' = NoOp
    /\ UNCHANGED <<cvars, ovars>>
    /\ UNCHANGED <<animNull, disableAnim>>

(***************************************************************************)
(* Blitter_40bppAnim::Draw(bp, mode, zoom), lines 330-349.                 *)
(***************************************************************************)
\* Mutant of Delegates: a null animation buffer is not looked at.
DelegatesMut(disable, null) == disable

\* The test of line 334: the request goes to the blitter without animation.
Delegates(disable, null) == disable \/ null

\* Mutant of Dispatch: a mode value the switch does not know is drawn as
\* Normal.
DispatchMut(mode) == IF mode \in Modes THEN mode ELSE "Normal"

\* The switch of lines 340-348: the instance of Draw<mode> a mode value is
\* handed to, or NOT_REACHED() for a value that is no BlitterMode.
Dispatch(mode) == IF mode \in Modes THEN mode ELSE "NOT_REACHED"

\* Where a w x h rectangle is drawn: centred on the screen.
DrawLeft(w) == (Pitch - w) \div 2
DrawTop(h) == (ScrH - h) \div 2

\* The draw request for a w x h part of the sprite of a pattern, starting at
\* sprite pixel (j, k).
DrawParams(pat, j, k, w, h) ==
    [spx |-> EncodeSpx(SpriteRows(pat)), srcn |-> EncodeSrcN(SpriteRows(pat)),
     dst |-> 0, pitch |-> Pitch,
     left |-> DrawLeft(w), top |-> DrawTop(h),
     skip_left |-> j, skip_top |-> k, width |-> w, height |-> h,
     remap |-> RemapOf(pat)]

Draw(mode, pat, j, k, w, h) ==
    \E bp \in {DrawParams(pat, j, k, w, h)} :
    LET pre == [vid |-> vid, animb |-> animb]
        arg == [mode |-> mode, pat |-> pat, j |-> j, k |-> k, w |-> w, h |-> h]
    IN  IF Delegates(disableAnim, animNull)
        THEN \* Blitter_32bppOptimized::Draw<true>, which has the same switch
             /\ vid' = IF mode \in Modes THEN Draw32(mode, bp, vid) ELSE vid
             /\ animb' = animb
             /\ fault' = IF mode \in Modes THEN "none" ELSE "abort"
             /\ last' = [op |-> "Draw", path |-> "32bpp", arg |-> arg, pre |-> pre,
                         log |-> << >>]
        ELSE IF Dispatch(mode) = "NOT_REACHED"
        THEN \* line 341
             /\ UNCHANGED <<vid, animb>>
             /\ fault' = "abort"
             /\ last' = [op |-> "Draw", path |-> "none", arg |-> arg, pre |-> pre,
                         log |-> << >>]
        ELSE IF animNull
        THEN \* the assertion of line 113
             /\ UNCHANGED <<vid, animb>>
             /\ fault' = "assert"
             /\ last' = [op |-> "Draw", path |-> "anim", arg |-> arg, pre |-> pre,
                         log |-> << >>]
        ELSE LET res == DrawMode(Dispatch(mode), bp, vid, animb)
             IN  /\ vid' = res.vid
                 /\ animb' = res.animb
                 /\ fault' = IF res.fault = "none" THEN "none" ELSE "ub"
                 /\ last' = [op |-> "Draw", path |-> "anim", arg |-> arg, pre |-> pre,
                             log |-> res.log]

DrawAct ==
    /\ fault = "none"
    /\ last.op = "none"
    /\ \E mode \in Modes, pat \in Patterns :
       \E j \in 0 .. SprW - 1, k \in 0 .. SprH - 1 :
       \E w \in 1 .. SprW - j, h \in {1, SprH - k} :
           Draw(mode, pat, j, k, w, h)
    /\ UNCHANGED <<cvars, ovars>>
    /\ UNCHANGED <<animNull, disableAnim, buf, cap>>

\* A request whose mode is no value of BlitterMode.
UnknownModes == {"Unknown"}

DrawUnknownAct ==
    /\ fault = "none"
    /\ last.op = "none"
    /\ \E mode \in UnknownModes, pat \in Patterns :
       \E j \in 0 .. SprW - 1, k \in 0 .. SprH - 1 :
       \E w \in 1 .. SprW - j, h \in {1, SprH - k} :
           Draw(mode, pat, j, k, w, h)
    /\ UNCHANGED <<cvars, ovars>>
    /\ UNCHANGED <<animNull, disableAnim, buf, cap>>

NextDraw == DrawAct \/ DrawUnknownAct \/ Repaint

SpecDraw == InitScreen /\ [][NextDraw]_vars

\* A request that shows nothing of the sprite: its width or its height is 0.
\* BlitterParams allows it (skip_left + width <= sprite width).
DrawEmptyAct ==
    /\ fault = "none"
    /\ last.op = "none"
    /\ \E mode \in Modes, pat \in Patterns :
       \E j \in 0 .. SprW - 1, k \in 0 .. SprH - 1 :
       \E w \in 0 .. 1, h \in 0 .. 1 :
           /\ w = 0 \/ h = 0
           /\ Draw(mode, pat, j, k, w, h)
    /\ UNCHANGED <<cvars, ovars>>
    /\ UNCHANGED <<animNull, disableAnim, buf, cap>>

NextDrawEmpty == DrawEmptyAct \/ Repaint

SpecDrawEmpty == InitScreen /\ [][NextDrawEmpty]_vars

(***************************************************************************)
(* SetPixel and DrawRect, lines 30-66.                                     *)
(***************************************************************************)
\* The pixels of a w x h rectangle whose first pixel is at offset video.
RectPixels(video, w, h) ==
    {video + y * Pitch + x : x \in 0 .. w - 1, y \in 0 .. h - 1}

SetPixel(video, x, y, p) ==
    LET off == video + x + y * Pitch IN
    IF disableAnim
    THEN \* Blitter_32bppOptimized::SetPixel
         /\ vid' = [vid EXCEPT ![off] = LookupColourInPalette(p)]
         /\ UNCHANGED animb
         /\ fault' = "none"
    ELSE \* lines 35-38; line 38 writes through the pointer GetAnimBuffer()
         \* returns, null or not
         /\ vid' = [vid EXCEPT ![off] = BlackColour]
         /\ animb' = IF animNull THEN animb ELSE [animb EXCEPT ![off] = p]
         /\ fault' = IF animNull THEN "ub" ELSE "none"

DrawRect(video, w, h, p) ==
    IF disableAnim
    THEN \* Blitter_32bppOptimized::DrawRect
         /\ vid' = [o \in DOMAIN vid |->
                       IF o \in RectPixels(video, w, h) THEN LookupColourInPalette(p) ELSE vid[o]]
         /\ UNCHANGED animb
         /\ fault' = "none"
    ELSE IF animNull
    THEN \* the assertion of line 50
         /\ UNCHANGED <<vid, animb>>
         /\ fault' = "assert"
    ELSE \* lines 53-65
         /\ vid' = [o \in DOMAIN vid |->
                       IF o \in RectPixels(video, w, h) THEN BlackColour ELSE vid[o]]
         /\ animb' = [o \in DOMAIN animb |->
                       IF o \in RectPixels(video, w, h) THEN p ELSE animb[o]]
         /\ fault' = "none"

(***************************************************************************)
(* DrawLine, lines 68-83.  DrawLineGeneric is not part of the file: it     *)
(* calls the pixel setter for every pixel of the line from (x, y) to       *)
(* (x2, y2), here of width 1 and without dashes.                           *)
(***************************************************************************)
LinePixels(x, y, x2, y2) ==
    LET step(a, b, a2, b2, t) == b + ((2 * (t - a) * (b2 - b) + (a2 - a)) \div (2 * (a2 - a)))
        dx == IF x2 > x THEN x2 - x ELSE x - x2
        dy == IF y2 > y THEN y2 - y ELSE y - y2
    IN  IF x = x2 /\ y = y2 THEN {<<x, y>>}
        ELSE IF dx >= dy
        THEN (IF x < x2 THEN {<<t, step(x, y, x2, y2, t)>> : t \in x .. x2}
                        ELSE {<<t, step(x2, y2, x, y, t)>> : t \in x2 .. x})
        ELSE (IF y < y2 THEN {<<step(y, x, y2, x2, t), t>> : t \in y .. y2}
                        ELSE {<<step(y2, x2, y, x, t), t>> : t \in y2 .. y})

\* Mutant of LineAnim: the animation pointer is not moved to where video
\* points.
LineAnimMut(video) == 0

\* Line 77: the animation pointer that belongs to video; _screen.dst_ptr is
\* offset 0.
LineAnim(video) == (video - 0) + 0

DrawLine(video, x, y, x2, y2, p) ==
    IF disableAnim
    THEN \* Blitter_32bppOptimized::DrawLine
         /\ vid' = [o \in DOMAIN vid |->
                       IF o \in {video + q[1] + q[2] * Pitch : q \in LinePixels(x, y, x2, y2)}
                       THEN LookupColourInPalette(p) ELSE vid[o]]
         /\ UNCHANGED animb
         /\ fault' = "none"
    ELSE IF animNull
    THEN \* the assertion of line 76
         /\ UNCHANGED <<vid, animb>>
         /\ fault' = "assert"
    ELSE \* lines 79-82
         /\ vid' = [o \in DOMAIN vid |->
                       IF o \in {video + q[1] + q[2] * Pitch : q \in LinePixels(x, y, x2, y2)}
                       THEN BlackColour ELSE vid[o]]
         /\ animb' = [o \in DOMAIN animb |->
                       IF o \in {LineAnim(video) + q[1] + q[2] * Pitch :
                                    q \in LinePixels(x, y, x2, y2)}
                       THEN p ELSE animb[o]]
         /\ fault' = "none"

(***************************************************************************)
(* CopyToBuffer and CopyFromBuffer, lines 409-451.  The caller's buffer is *)
(* a sequence of bytes; a pointer into it is a byte offset.                *)
(***************************************************************************)
\* std::copy_n of w pixels at src and of w animation bytes at anim_line.
WordsAt(b, src, w) ==
    [i \in 1 .. 4 * w |-> WordBytes(b[src + (i - 1) \div 4])[((i - 1) % 4) + 1]]
BytesAt(b, anim_line, w) == [i \in 1 .. w |-> b[anim_line + i - 1]]

RECURSIVE CopyToRows(_, _, _, _, _, _)
\* Mutant of CopyToRows: the animation bytes of a row are written before its
\* colours.
CopyToRowsMut(v, a, src, anim_line, w, h) ==
    IF h <= 0 THEN << >>
    ELSE BytesAt(a, anim_line, w) \o WordsAt(v, src, w)
             \o CopyToRows(v, a, src + Pitch, anim_line + Pitch, w, h - 1)

\* The loop of lines 442-450: the bytes written through udst.
CopyToRows(v, a, src, anim_line, w, h) ==
    IF h <= 0 THEN << >>
    ELSE WordsAt(v, src, w) \o BytesAt(a, anim_line, w)
             \o CopyToRows(v, a, src + Pitch, anim_line + Pitch, w, h - 1)

\* Mutant of NextRow: the animation bytes of the row are not stepped over.
NextRowMut(usrc, w) == usrc + 4 * w

\* Line 426: usrc after the colours and the animation bytes of a row.
NextRow(usrc, w) == usrc + 4 * w + w

\* The loop of lines 420-428: the screen [vid, animb] after the rows are
\* copied back from byte offset usrc of the bytes src.
RECURSIVE CopyFromRows(_, _, _, _, _, _)
CopyFromRows(scr, src, usrc, dst, w, h) ==
    IF h <= 0 THEN scr
    ELSE CopyFromRows(
             [vid |-> [o \in DOMAIN scr.vid |->
                          IF o >= dst /\ o < dst + w
                          THEN BytesWord(SubSeq(src, usrc + 4 * (o - dst) + 1,
                                                usrc + 4 * (o - dst) + 4))
                          ELSE scr.vid[o]],
              animb |-> [o \in DOMAIN scr.animb |->
                          IF o >= dst /\ o < dst + w
                          THEN src[usrc + 4 * w + (o - dst) + 1]
                          ELSE scr.animb[o]]],
             src, NextRow(usrc, w), dst + Pitch, w, h - 1)

\* size_t BufferSize(width, height), lines 517-520.
BufferSize(w, h) == (4 + 1) * w * h

CopyToBuffer(video, w, h) ==
    IF disableAnim
    THEN \* the assertion of line 433
         /\ UNCHANGED <<buf, cap>>
         /\ fault' = "assert"
    ELSE /\ cap' = [set |-> TRUE, video |-> video, w |-> w, h |-> h,
                    vid |-> vid, animb |-> animb, dirty |-> FALSE]
         /\ fault' = "none"
         /\ buf' = IF animNull
                   THEN buf  \* line 439
                   ELSE CopyToRows(vid, animb, video, video, w, h)

CopyFromBuffer(video, w, h) ==
    IF disableAnim
    THEN \* the assertion of line 411
         /\ UNCHANGED <<vid, animb>>
         /\ fault' = "assert"
    ELSE IF animNull
    THEN \* line 417
         /\ UNCHANGED <<vid, animb>>
         /\ fault' = "none"
    ELSE IF Len(buf) < BufferSize(w, h)
    THEN \* reads beyond the caller's buffer
         /\ UNCHANGED <<vid, animb>>
         /\ fault' = "ub"
    ELSE \E scr \in {CopyFromRows([vid |-> vid, animb |-> animb], buf, 0, video, w, h)} :
             /\ vid' = scr.vid
             /\ animb' = scr.animb
             /\ fault' = "none"

(***************************************************************************)
(* ScrollBuffer, lines 475-515.                                            *)
(***************************************************************************)
\* Mutant of ScrollWindow: every scroll is walked from the top row down.
ScrollWindowMut(base, left, top, width, height, scroll_x, scroll_y) ==
    LET dst0 == base + left + (IF scroll_y > 0 THEN top + scroll_y ELSE top) * Pitch
        src0 == dst0 - scroll_y * Pitch
    IN  [dst |-> IF scroll_x >= 0 THEN dst0 + scroll_x ELSE dst0,
         src |-> IF scroll_x >= 0 THEN src0 ELSE src0 - scroll_x,
         tw |-> width + (IF scroll_x >= 0 THEN -scroll_x ELSE scroll_x),
         th |-> IF scroll_y > 0 THEN height - scroll_y ELSE height + scroll_y,
         pitch |-> Pitch]

\* Lines 483-512: the move of the rectangle (left, top, width, height) of
\* the buffer that starts at base: first pixel read, first pixel written,
\* size of the window and the step from one row to the next.
ScrollWindow(base, left, top, width, height, scroll_x, scroll_y) ==
    LET dst0 == IF scroll_y > 0
                THEN base + left + (top + height - 1) * Pitch
                ELSE base + left + top * Pitch
        src0 == dst0 - scroll_y * Pitch
    IN  [dst |-> IF scroll_x >= 0 THEN dst0 + scroll_x ELSE dst0,
         src |-> IF scroll_x >= 0 THEN src0 ELSE src0 - scroll_x,
         tw |-> width + (IF scroll_x >= 0 THEN -scroll_x ELSE scroll_x),
         th |-> IF scroll_y > 0 THEN height - scroll_y ELSE height + scroll_y,
         pitch |-> IF scroll_y > 0 THEN -Pitch ELSE Pitch]

\* Blitter::MovePixels(src, dst, width, height, pitch): moves height rows of
\* width pixels, one row after the other, each as by memmove.
RECURSIVE MovePixels(_, _, _, _, _, _)
MovePixels(b, src, dst, width, height, pitch) ==
    IF height <= 0 \/ src = dst THEN b
    ELSE MovePixels([o \in DOMAIN b |->
                        IF o >= dst /\ o < dst + width THEN b[o - dst + src] ELSE b[o]],
                    src + pitch, dst + pitch, width, height - 1, pitch)

\* Whether a move stays inside the buffer.
MoveInside(b, win) ==
    \A r \in 0 .. win.th - 1 :
        /\ win.src + r * win.pitch \in DOMAIN b
        /\ win.src + r * win.pitch + win.tw - 1 \in DOMAIN b
        /\ win.dst + r * win.pitch \in DOMAIN b
        /\ win.dst + r * win.pitch + win.tw - 1 \in DOMAIN b

\* The animation buffer after lines 483-512: the window is taken from the
\* start of the animation buffer.
ScrollAnim(a, left, top, width, height, scroll_x, scroll_y) ==
    LET win == ScrollWindow(0, left, top, width, height, scroll_x, scroll_y)
    IN  MovePixels(a, win.src, win.dst, win.tw, win.th, win.pitch)

\* Blitter_32bppBase::ScrollBuffer: the same move, of the colour buffer,
\* the window taken from video.
ScrollColour(v, video, left, top, width, height, scroll_x, scroll_y) ==
    LET win == ScrollWindow(video, left, top, width, height, scroll_x, scroll_y)
    IN  MovePixels(v, win.src, win.dst, win.tw, win.th, win.pitch)

ScrollBuffer(video, left, top, width, height, scroll_x, scroll_y) ==
    IF disableAnim
    THEN \* the assertion of line 477
         /\ UNCHANGED <<vid, animb>>
         /\ fault' = "assert"
    ELSE IF animNull
    THEN \* MovePixels through a null anim_buf
         /\ UNCHANGED <<vid, animb>>
         /\ fault' = "ub"
    ELSE IF ~MoveInside(animb, ScrollWindow(0, left, top, width, height, scroll_x, scroll_y))
    THEN \* the window of the animation buffer is not inside it
         /\ UNCHANGED <<vid, animb>>
         /\ fault' = "ub"
    ELSE /\ animb' = ScrollAnim(animb, left, top, width, height, scroll_x, scroll_y)
         /\ vid' = ScrollColour(vid, video, left, top, width, height, scroll_x, scroll_y)
         /\ fault' = "none"

(***************************************************************************)
(* The operations on the screen buffers as actions.  A capture is followed *)
(* by at most one write and by the restore.                                *)
(***************************************************************************)
\* The rectangles of the screen: offset of the first pixel, width, height.
ScreenRects ==
    {r \in (0 .. Pitch - 1) \X (0 .. ScrH - 1) \X (1 .. Pitch) \X (1 .. ScrH) :
        r[1] + r[3] <= Pitch /\ r[2] + r[4] <= ScrH}

Pre == [vid |-> vid, animb |-> animb]
CanWrite == fault = "none" /\ last.op \in {"none", "CopyTo"}
Dirty == IF cap.set THEN [cap EXCEPT !.dirty = TRUE] ELSE cap

SetPixelAct ==
    /\ CanWrite
    /\ \E x \in 0 .. Pitch - 1, y \in 0 .. ScrH - 1 :
          /\ SetPixel(0, x, y, 1 + ((x + y) % 2))
          /\ last' = [op |-> "SetPixel", arg |-> [x |-> x, y |-> y, p |-> 1 + ((x + y) % 2)],
                      pre |-> Pre]
    /\ cap' = Dirty
    /\ UNCHANGED <<cvars, ovars>>
    /\ UNCHANGED <<animNull, disableAnim, buf>>

DrawRectAct ==
    /\ CanWrite
    /\ \E r \in ScreenRects :
          /\ r[3] >= 2 /\ r[4] >= 2
          /\ DrawRect(r[2] * Pitch + r[1], r[3], r[4], 3)
          /\ last' = [op |-> "DrawRect",
                      arg |-> [video |-> r[2] * Pitch + r[1], w |-> r[3], h |-> r[4], p |-> 3],
                      pre |-> Pre]
    /\ cap' = Dirty
    /\ UNCHANGED <<cvars, ovars>>
    /\ UNCHANGED <<animNull, disableAnim, buf>>

CopyToAct ==
    /\ fault = "none"
    /\ last.op = "none"
    /\ \E r \in ScreenRects :
          /\ CopyToBuffer(r[2] * Pitch + r[1], r[3], r[4])
          /\ last' = [op |-> "CopyTo",
                      arg |-> [video |-> r[2] * Pitch + r[1], w |-> r[3], h |-> r[4]],
                      pre |-> Pre]
    /\ UNCHANGED <<cvars, ovars>>
    /\ UNCHANGED <<vid, animb, animNull, disableAnim>>

CopyFromAct ==
    /\ fault = "none"
    /\ cap.set
    /\ last.op # "CopyFrom"
    /\ CopyFromBuffer(cap.video, cap.w, cap.h)
    /\ last' = [op |-> "CopyFrom", arg |-> [video |-> cap.video, w |-> cap.w, h |-> cap.h],
                pre |-> Pre]
    /\ UNCHANGED <<cvars, ovars>>
    /\ UNCHANGED <<animNull, disableAnim, buf, cap>>

\* The positions of video the model scrolls from: _screen.dst_ptr and one
\* pixel to the right of and below it.
ScrollBases == {0, Pitch + 1}

ScrollAct ==
    /\ fault = "none"
    /\ last.op = "none"
    /\ \E video \in ScrollBases, r \in ScreenRects :
       \E sx \in 1 - r[3] .. r[3] - 1, sy \in 1 - r[4] .. r[4] - 1 :
          /\ (video % Pitch) + r[1] + r[3] <= Pitch
          /\ (video \div Pitch) + r[2] + r[4] <= ScrH
          /\ ScrollBuffer(video, r[1], r[2], r[3], r[4], sx, sy)
          /\ last' = [op |-> "Scroll",
                      arg |-> [video |-> video, left |-> r[1], top |-> r[2], width |-> r[3],
                               height |-> r[4], scroll_x |-> sx, scroll_y |-> sy],
                      pre |-> Pre]
    /\ UNCHANGED <<cvars, ovars>>
    /\ UNCHANGED <<animNull, disableAnim, buf, cap>>

\* A line between two pixels of the drawing area that starts at video: the
\* screen, or the part of it to the right of and below pixel (1, 1).
DrawLineAct ==
    /\ CanWrite
    /\ \E video \in ScrollBases :
       \E x \in 0 .. Pitch - 1 - (video % Pitch), x2 \in 0 .. Pitch - 1 - (video % Pitch) :
       \E y \in 0 .. ScrH - 1 - (video \div Pitch), y2 \in 0 .. ScrH - 1 - (video \div Pitch) :
          /\ DrawLine(video, x, y, x2, y2, 2)
          /\ last' = [op |-> "DrawLine",
                      arg |-> [video |-> video, x |-> x, y |-> y, x2 |-> x2, y2 |-> y2, p |-> 2],
                      pre |-> Pre]
    /\ cap' = Dirty
    /\ UNCHANGED <<cvars, ovars>>
    /\ UNCHANGED <<animNull, disableAnim, buf>>

Next ==
    \/ SetPixelAct
    \/ DrawRectAct
    \/ DrawLineAct
    \/ CopyToAct
    \/ CopyFromAct
    \/ ScrollAct
    \/ Repaint

Spec == InitScreen /\ [][Next]_vars

(***************************************************************************)
(* The in-game console, console_gui.cpp.  The window system (creation of   *)
(* a window, CloseWindowById, the focus) is not part of the file: a window *)
(* of class WC_CONSOLE is an entry of conWindows, and the console window   *)
(* has the focus whenever it exists.                                       *)
(***************************************************************************)
\* _screen.height, the height of a line of text, and the number of backlog
\* lines the model prints.
ScreenHeight == 24
LineHeight == 2
MaxBacklog == 7

\* Line 37.
ICON_BOTTOM_BORDERWIDTH == 12

\* IConsoleWindow::IConsoleWindow(), lines 154-160.
NewIConsoleWindow ==
    /\ iconsole_mode' = "ICONSOLE_OPENED"
    /\ conWindows' = Append(conWindows, [height |-> ScreenHeight \div 3])

\* IConsoleWindow::Close(), lines 169-174, of the i-th console window.
IConsoleWindowClose(i) ==
    /\ iconsole_mode' = "ICONSOLE_CLOSED"
    /\ conWindows' = [k \in 1 .. Len(conWindows) - 1 |->
                         IF k < i THEN conWindows[k] ELSE conWindows[k + 1]]

\* CloseWindowById(WC_CONSOLE, 0): closes the window of that class and
\* number, if there is one.
CloseWindowById ==
    IF conWindows = << >>
    THEN UNCHANGED <<iconsole_mode, conWindows>>
    ELSE IConsoleWindowClose(1)

\* Mutant of IConsoleSwitch: a window is opened in every mode.
IConsoleSwitchMut == NewIConsoleWindow

\* IConsoleSwitch(), lines 426-439.
IConsoleSwitch ==
    IF iconsole_mode = "ICONSOLE_CLOSED" THEN NewIConsoleWindow ELSE CloseWindowById

\* IConsoleClose(), lines 442-445.
IConsoleClose ==
    IF iconsole_mode = "ICONSOLE_OPENED"
    THEN IConsoleSwitch
    ELSE UNCHANGED <<iconsole_mode, conWindows>>

\* IConsoleResize(w), lines 408-423: the height of the window in a mode.
IConsoleResize(mode, height) ==
    IF mode = "ICONSOLE_OPENED" THEN ScreenHeight \div 3
    ELSE IF mode = "ICONSOLE_FULL" THEN ScreenHeight - ICON_BOTTOM_BORDERWIDTH
    ELSE height

\* OnKeyPress with WKC_CTRL | WKC_RETURN, lines 287-291, in the first window.
OnKeyPressCtrlReturn ==
    LET mode == IF iconsole_mode = "ICONSOLE_FULL" THEN "ICONSOLE_OPENED" ELSE "ICONSOLE_FULL"
    IN  /\ iconsole_mode' = mode
        /\ conWindows' = [conWindows EXCEPT
                             ![1].height = IConsoleResize(mode, conWindows[1].height)]

\* Mutant of Scroll: a position above max_scroll is left where it is.
ScrollMut(height, amount) ==
    IF amount < 0
    THEN (IF -amount > scroll THEN 0 ELSE scroll - (-amount))
    ELSE LET visible_lines == height \div LineHeight
             max_scroll == IF visible_lines > Len(iconsole_buffer)
                           THEN 0
                           ELSE Len(iconsole_buffer) + 1 - visible_lines
         IN  IF scroll > max_scroll THEN scroll ELSE Min(scroll + amount, max_scroll)

\* IConsoleWindow::Scroll(amount), lines 180-192, in a window of a height:
\* the new value of IConsoleWindow::scroll.
Scroll(height, amount) ==
    IF amount < 0
    THEN (IF -amount > scroll THEN 0 ELSE scroll - (-amount))
    ELSE LET visible_lines == height \div LineHeight
             max_scroll == IF visible_lines > Len(iconsole_buffer)
                           THEN 0
                           ELSE Len(iconsole_buffer) + 1 - visible_lines
         IN  Min(scroll + amount, max_scroll)

ConOp(name) == [op |-> name, mode |-> iconsole_mode]

IConsoleSwitchAct ==
    /\ fault = "none"
    /\ IConsoleSwitch
    /\ conLast' = ConOp("IConsoleSwitch")
    /\ UNCHANGED <<iconsole_buffer, scroll>>
    /\ UNCHANGED <<hvars, bvars, ovars>>

IConsoleCloseAct ==
    /\ IConsoleClose
    /\ conLast' = ConOp("IConsoleClose")
    /\ UNCHANGED <<iconsole_buffer, scroll>>
    /\ UNCHANGED <<hvars, bvars, ovars>>

CtrlReturnAct ==
    /\ conWindows # << >>
    /\ OnKeyPressCtrlReturn
    /\ conLast' = ConOp("CtrlReturn")
    /\ UNCHANGED <<iconsole_buffer, scroll>>
    /\ UNCHANGED <<hvars, bvars, ovars>>

\* The window system closes the console window (Window::Close of all windows).
WindowCloseAct ==
    /\ conWindows # << >>
    /\ IConsoleWindowClose(1)
    /\ conLast' = ConOp("Close")
    /\ UNCHANGED <<iconsole_buffer, scroll>>
    /\ UNCHANGED <<hvars, bvars, ovars>>

\* IConsoleGUIPrint(colour_code, str), lines 498-502.
IConsoleGUIPrintAct ==
    /\ Len(iconsole_buffer) < MaxBacklog
    /\ iconsole_buffer' = <<0>> \o iconsole_buffer
    /\ conLast' = ConOp("IConsoleGUIPrint")
    /\ UNCHANGED <<iconsole_mode, conWindows, scroll>>
    /\ UNCHANGED <<hvars, bvars, ovars>>

\* OnKeyPress with Shift and Up, Down, PageUp or PageDown, lines 255-269.
ScrollKeyAct ==
    /\ conWindows # << >>
    /\ \E amount \in {-1, 1, (conWindows[1].height \div LineHeight) - 1,
                       1 - (conWindows[1].height \div LineHeight)} :
          /\ scroll' = Scroll(conWindows[1].height, amount)
          /\ conLast' = [op |-> "Scroll", mode |-> iconsole_mode, amount |-> amount,
                         scroll |-> scroll]
    /\ UNCHANGED <<iconsole_mode, conWindows, iconsole_buffer>>
    /\ UNCHANGED <<hvars, bvars, ovars>>

\* The console on a screen nothing is drawn to.
InitConsole ==
    /\ IConsoleGUIInit
    /\ NoVehicle
    /\ vid = SceneVid /\ animb = SceneAnim
    /\ animNull = FALSE /\ disableAnim = FALSE
    /\ buf = << >> /\ cap = NoCap /\ fault = "none" /\ last = NoOp

NextConsole ==
    \/ IConsoleSwitchAct
    \/ IConsoleCloseAct
    \/ CtrlReturnAct
    \/ WindowCloseAct
    \/ IConsoleGUIPrintAct
    \/ ScrollKeyAct

SpecConsole == InitConsole /\ [][NextConsole]_vars

(***************************************************************************)
(* The backlog and its truncation, lines 42-70, 222-232 and 498-530.       *)
(***************************************************************************)
\* _settings_client.gui.console_backlog_length and console_backlog_timeout.
console_backlog_length == 2
console_backlog_timeout == 2

\* IConsoleLine::time is a uint16_t (line 45).
TimeWrap == 65536

\* The number of timer runs the model follows a line for, and the number of
\* timer runs the console of InitBacklog has been left open without output.
MaxAge == 4
QuietRuns == 65533

\* The loop of lines 515-523: the value of count at the break, 0 when the
\* loop ends without one.  i is the position the loop is at.
RECURSIVE TruncateLoop(_, _)
TruncateLoop(b, i) ==
    IF i > Len(b) THEN 0
    ELSE IF ((b[i] + 1) % TimeWrap) > console_backlog_timeout /\ i > console_backlog_length
    THEN i
    ELSE TruncateLoop(b, i + 1)

\* TruncateBuffer(), lines 511-530, on a backlog b: the backlog afterwards and
\* the value returned.
TruncateBuffer(b) ==
    LET count == TruncateLoop(b, 1)
    IN  IF count = 0
        THEN [buffer |-> [i \in 1 .. Len(b) |-> (b[i] + 1) % TimeWrap], ret |-> FALSE]
        ELSE [buffer |-> [i \in 1 .. count - 1 |-> (b[i] + 1) % TimeWrap], ret |-> TRUE]

\* The timer truncate_interval of the console window, lines 223-232.
TruncateIntervalAct ==
    /\ fault = "none"
    /\ conWindows # << >>
    /\ \A i \in 1 .. Len(iconsole_buffer) :
          iconsole_buffer[i] < MaxAge \/ iconsole_buffer[i] >= QuietRuns
    /\ LET visible_lines == conWindows[1].height \div LineHeight
           t == TruncateBuffer(iconsole_buffer)
           max_scroll == IF visible_lines > Len(t.buffer) THEN 0
                         ELSE Len(t.buffer) + 1 - visible_lines
       IN  /\ iconsole_buffer' = t.buffer
           /\ scroll' = IF t.ret /\ scroll + visible_lines > Len(t.buffer)
                        THEN Min(scroll, max_scroll)
                        ELSE scroll
           /\ conLast' = [op |-> "TruncateBuffer", mode |-> iconsole_mode,
                          buffer |-> iconsole_buffer, ret |-> t.ret]
    /\ UNCHANGED <<iconsole_mode, conWindows>>
    /\ UNCHANGED <<hvars, bvars, ovars>>

\* The console after IConsoleGUIInit, or after the console window has then
\* been open for QuietRuns runs of the timer and closed again: the lines
\* within console_backlog_length are left, each QuietRuns old.
InitBacklog ==
    /\ iconsole_mode = "ICONSOLE_CLOSED"
    /\ conWindows = << >>
    /\ iconsole_buffer \in {<<0, 0, 0, 0>>,
                            [i \in 1 .. Min(4, console_backlog_length) |-> QuietRuns]}
    /\ scroll = 0
    /\ conLast = NoOp
    /\ iconsole_history = << >>
    /\ iconsole_cmdline = << >>
    /\ iconsole_historypos = -1
    /\ NoVehicle
    /\ vid = SceneVid /\ animb = SceneAnim
    /\ animNull = FALSE /\ disableAnim = FALSE
    /\ buf = << >> /\ cap = NoCap /\ fault = "none" /\ last = NoOp

NextBacklog ==
    \/ IConsoleSwitchAct
    \/ IConsoleGUIPrintAct
    \/ ScrollKeyAct
    \/ TruncateIntervalAct

SpecBacklog == InitBacklog /\ [][NextBacklog]_vars

(***************************************************************************)
(* The command line and the command history, lines 275-329 and 447-487.    *)
(* A text is a sequence of characters; " " is the whitespace character.    *)
(***************************************************************************)
\* Line 35.
ICON_HISTORY_SIZE == 20

\* The command lines the model types: nothing, a blank, a one-letter command,
\* and that command behind a blank.
Chars == {" ", "a", "b"}
Texts == {<< >>, <<" ">>, <<"a">>, <<"b">>, <<" ", "a">>, <<" ", "b">>}

IsWhitespace(c) == c = " "

\* The loop of line 456 where every read of cmd[0] is inside the text.
RECURSIVE StripLeft(_)
StripLeft(cmd) ==
    IF cmd # << >> /\ IsWhitespace(Head(cmd)) THEN StripLeft(Tail(cmd)) ELSE cmd

\* What the read of cmd[0] of an empty std::string_view (line 456) can do:
\* it is outside the view, which is undefined.  It finds the terminator of
\* the string the view is taken from, or a library built with checks of the
\* index ends the program.
PastEndReads == {"terminator", "abort"}

\* Lines 462-465: the history after a non-empty command.
HistoryPush(history, cmd) ==
    IF history = << >> \/ Head(history) # cmd
    THEN LET h == <<cmd>> \o history
         IN  IF Len(h) > ICON_HISTORY_SIZE THEN SubSeq(h, 1, ICON_HISTORY_SIZE) ELSE h
    ELSE history

\* IConsoleHistoryAdd(cmd), lines 453-470, where a read outside the view
\* does what `read` says: the history and history position afterwards, the
\* value returned, and whether the program goes on.
IConsoleHistoryAdd(text, read) ==
    LET cmd == StripLeft(text)
    IN  IF cmd = << >> /\ read = "abort"
        THEN [history |-> iconsole_history, pos |-> iconsole_historypos,
              ret |-> [has |-> FALSE], fault |-> "ub"]
        ELSE IF cmd = << >>
        THEN [history |-> iconsole_history, pos |-> iconsole_historypos,
              ret |-> [has |-> FALSE], fault |-> "none"]
        ELSE [history |-> HistoryPush(iconsole_history, cmd), pos |-> -1,
              ret |-> [has |-> TRUE, cmd |-> Head(HistoryPush(iconsole_history, cmd))],
              fault |-> "none"]

\* Clamp<ptrdiff_t>(a, min, max).
Clamp(a, min, max) == IF a <= min THEN min ELSE IF a >= max THEN max ELSE a

\* Mutant of HistoryPos: Up at the oldest entry goes round to -1.
HistoryPosMut(pos, direction, size) ==
    IF pos + direction >= size THEN -1 ELSE Max(pos + direction, -1)

\* Line 479.
HistoryPos(pos, direction, size) == Clamp(pos + direction, -1, size - 1)

\* IConsoleHistoryNavigate(direction), lines 476-487.
IConsoleHistoryNavigate(direction) ==
    IF iconsole_history = << >>
    THEN UNCHANGED <<iconsole_historypos, iconsole_cmdline>>
    ELSE \E pos \in {HistoryPos(iconsole_historypos, direction, Len(iconsole_history))} :
            /\ iconsole_historypos' = pos
            /\ iconsole_cmdline' = IF pos = -1 THEN << >> ELSE iconsole_history[pos + 1]

\* OnKeyPress with WKC_UP or WKC_DOWN, lines 247-253.
HistoryKeyAct ==
    /\ fault = "none"
    /\ conWindows # << >>
    /\ \E direction \in {1, -1} :
          /\ IConsoleHistoryNavigate(direction)
          /\ conLast' = [op |-> "Navigate", mode |-> iconsole_mode, direction |-> direction,
                         pos |-> iconsole_historypos, history |-> iconsole_history]
    /\ UNCHANGED <<iconsole_mode, conWindows, iconsole_buffer, scroll, iconsole_history>>
    /\ UNCHANGED <<bvars, ovars>>

\* OnKeyPress with WKC_RETURN, lines 275-285.  IConsolePrint hands the line
\* to IConsoleGUIPrint; the command is handed to IConsoleCmdExec.
ReturnKeyAct ==
    /\ fault = "none"
    /\ conWindows # << >>
    /\ Len(iconsole_buffer) < MaxBacklog + ICON_HISTORY_SIZE
    /\ \E read \in PastEndReads :
          LET add == IConsoleHistoryAdd(iconsole_cmdline, read)
          IN  /\ iconsole_buffer' = <<0>> \o iconsole_buffer
              /\ iconsole_history' = add.history
              /\ iconsole_historypos' = add.pos
              /\ iconsole_cmdline' = IF add.fault = "none" THEN << >> ELSE iconsole_cmdline
              /\ fault' = add.fault
              /\ conLast' = [op |-> "Return", mode |-> iconsole_mode,
                             text |-> iconsole_cmdline, history |-> iconsole_history,
                             pos |-> iconsole_historypos, ret |-> add.ret]
    /\ UNCHANGED <<iconsole_mode, conWindows, scroll>>
    /\ UNCHANGED <<vid, animb, animNull, disableAnim, buf, cap, last>>
    /\ UNCHANGED ovars

\* OnKeyPress with a key the command line takes, lines 303-316: a character
\* is typed or the last one is deleted (HKPR_EDITING), or the caret is moved
\* (HKPR_CURSOR).
EditKeyAct ==
    /\ fault = "none"
    /\ conWindows # << >>
    /\ \E text \in Texts :
          /\ \/ \E c \in Chars : text = Append(iconsole_cmdline, c)
             \/ iconsole_cmdline # << >>
                  /\ text = SubSeq(iconsole_cmdline, 1, Len(iconsole_cmdline) - 1)
             \/ text = iconsole_cmdline
          /\ iconsole_cmdline' = text
          /\ scroll' = 0
          /\ iconsole_historypos' = -1
          /\ conLast' = [op |-> "Edit", mode |-> iconsole_mode, text |-> iconsole_cmdline,
                         pos |-> iconsole_historypos, history |-> iconsole_history]
    /\ UNCHANGED <<iconsole_mode, conWindows, iconsole_buffer, iconsole_history>>
    /\ UNCHANGED <<bvars, ovars>>

\* InsertTextString(str), lines 321-329, with a str that is put in.
InsertTextAct ==
    /\ fault = "none"
    /\ conWindows # << >>
    /\ \E text \in Texts \ {<< >>} :
          /\ iconsole_cmdline = << >>
          /\ iconsole_cmdline' = text
          /\ scroll' = 0
          /\ iconsole_historypos' = -1
          /\ conLast' = [op |-> "Insert", mode |-> iconsole_mode, text |-> iconsole_cmdline,
                         pos |-> iconsole_historypos, history |-> iconsole_history]
    /\ UNCHANGED <<iconsole_mode, conWindows, iconsole_buffer, iconsole_history>>
    /\ UNCHANGED <<bvars, ovars>>

NextHistory ==
    \/ IConsoleSwitchAct
    \/ HistoryKeyAct
    \/ ReturnKeyAct
    \/ EditKeyAct
    \/ InsertTextAct

SpecHistory == InitConsole /\ [][NextHistory]_vars

(***************************************************************************)
(* The order indices of a vehicle, vehicle_base.h lines 826-902.  An order *)
(* list is the sequence of its orders, TRUE for an order of type           *)
(* OT_IMPLICIT; order i of the code is element i + 1.  A loop is followed  *)
(* for one pass more than the list has orders: the index is its only       *)
(* state, so a loop that has not ended by then never ends.                 *)
(***************************************************************************)
MaxOrders == 4

\* VehicleOrderID is 8 bits wide.
OrderIdWrap == 256

OrderLists == UNION {[1 .. n -> BOOLEAN] : n \in 0 .. MaxOrders}

\* Lines 725 and 731, for an order list whose count of manual orders matches
\* its contents.
GetNumOrders(o) == Len(o)
GetNumManualOrders(o) == Cardinality({i \in 1 .. Len(o) : ~o[i]})

\* Mutant of NextIndex: the index is not taken back to 0 behind the last
\* order.
NextIndexMut(index, n) == (index + 1) % OrderIdWrap

\* Lines 835-836 (and 860-861, 896-897): the index is incremented and taken
\* back to 0 behind the last order.
NextIndex(index, n) ==
    IF ((index + 1) % OrderIdWrap) >= n THEN 0 ELSE (index + 1) % OrderIdWrap

\* The loop of lines 834-837, entered at `do` with an index and a number of
\* passes left.  GetOrder of an index that is no order is a null pointer.
RECURSIVE SkipRealLoop(_, _, _)
SkipRealLoop(o, index, passes) ==
    LET next == NextIndex(index, GetNumOrders(o))
    IN  IF next >= GetNumOrders(o) THEN [index |-> next, end |-> "ub"]
        ELSE IF ~o[next + 1] THEN [index |-> next, end |-> "done"]
        ELSE IF passes = 0 THEN [index |-> next, end |-> "diverges"]
        ELSE SkipRealLoop(o, next, passes - 1)

\* SkipToNextRealOrderIndex(), lines 830-841: the new cur_real_order_index.
SkipToNextRealOrderIndex(o, real) ==
    IF GetNumManualOrders(o) > 0
    THEN SkipRealLoop(o, real, GetNumOrders(o))
    ELSE [index |-> 0, end |-> "done"]

\* The loop of lines 895-898, entered at `while`.
RECURSIVE UpdateRealLoop(_, _, _)
UpdateRealLoop(o, index, passes) ==
    IF index >= GetNumOrders(o) THEN [index |-> index, end |-> "ub"]
    ELSE IF ~o[index + 1] THEN [index |-> index, end |-> "done"]
    ELSE IF passes = 0 THEN [index |-> index, end |-> "diverges"]
    ELSE UpdateRealLoop(o, NextIndex(index, GetNumOrders(o)), passes - 1)

\* UpdateRealOrderIndex(), lines 888-902: the new cur_real_order_index.
UpdateRealOrderIndex(o, real) ==
    LET valid == IF real >= GetNumOrders(o) THEN 0 ELSE real
    IN  IF GetNumManualOrders(o) > 0
        THEN UpdateRealLoop(o, valid, GetNumOrders(o))
        ELSE [index |-> 0, end |-> "done"]

\* Mutant of ImplicitLoopEnds: the loop does not end at the real order.
ImplicitLoopEndsMut(o, implicit, real) ==
    implicit < GetNumOrders(o) /\ o[implicit + 1]

\* The condition of line 862, negated: the loop ends at the real order or at
\* an implicit order.
ImplicitLoopEnds(o, implicit, real) ==
    implicit = real \/ (implicit < GetNumOrders(o) /\ o[implicit + 1])

\* The loop of lines 859-862, entered at `do`.
RECURSIVE ImplicitLoop(_, _, _, _)
ImplicitLoop(o, implicit, real, passes) ==
    LET next == NextIndex(implicit, GetNumOrders(o))
    IN  IF next # real /\ next >= GetNumOrders(o) THEN [index |-> next, end |-> "ub"]
        ELSE IF ImplicitLoopEnds(o, next, real) THEN [index |-> next, end |-> "done"]
        ELSE IF passes = 0 THEN [index |-> next, end |-> "diverges"]
        ELSE ImplicitLoop(o, next, real, passes - 1)

\* IncrementImplicitOrderIndex(), lines 849-865: both indices afterwards.
IncrementImplicitOrderIndex(o, real, implicit) ==
    LET skip == IF implicit = real THEN SkipToNextRealOrderIndex(o, real)
                ELSE [index |-> real, end |-> "done"]
        loop == ImplicitLoop(o, implicit, skip.index, GetNumOrders(o))
    IN  IF skip.end # "done"
        THEN [real |-> skip.index, implicit |-> implicit, end |-> skip.end]
        ELSE IF ~(skip.index = 0 \/ skip.index < GetNumOrders(o))
        THEN [real |-> skip.index, implicit |-> implicit, end |-> "assert"]
        ELSE [real |-> skip.index, implicit |-> loop.index, end |-> loop.end]

\* IncrementRealOrderIndex(), lines 873-883.
IncrementRealOrderIndex(o, real, implicit) ==
    IF implicit = real
    THEN IncrementImplicitOrderIndex(o, real, implicit)
    ELSE [real |-> SkipToNextRealOrderIndex(o, real).index, implicit |-> implicit,
          end |-> SkipToNextRealOrderIndex(o, real).end]

\* A call may follow a call that has returned.
Returned == IF ordLast.op = "none" THEN TRUE ELSE ordLast.end = "done"

SkipToNextRealOrderIndexAct ==
    /\ Returned
    /\ \E r \in {SkipToNextRealOrderIndex(orders, cur_real_order_index)} :
          /\ cur_real_order_index' = r.index
          /\ ordLast' = [op |-> "SkipToNextRealOrderIndex", real |-> cur_real_order_index,
                         implicit |-> cur_implicit_order_index, end |-> r.end]
    /\ UNCHANGED <<orders, cur_implicit_order_index>>
    /\ UNCHANGED <<bvars, cvars>>

UpdateRealOrderIndexAct ==
    /\ Returned
    /\ \E r \in {UpdateRealOrderIndex(orders, cur_real_order_index)} :
          /\ cur_real_order_index' = r.index
          /\ ordLast' = [op |-> "UpdateRealOrderIndex", real |-> cur_real_order_index,
                         implicit |-> cur_implicit_order_index, end |-> r.end]
    /\ UNCHANGED <<orders, cur_implicit_order_index>>
    /\ UNCHANGED <<bvars, cvars>>

IncrementImplicitOrderIndexAct ==
    /\ Returned
    /\ \E r \in {IncrementImplicitOrderIndex(orders, cur_real_order_index,
                                             cur_implicit_order_index)} :
          /\ cur_real_order_index' = r.real
          /\ cur_implicit_order_index' = r.implicit
          /\ ordLast' = [op |-> "IncrementImplicitOrderIndex", real |-> cur_real_order_index,
                         implicit |-> cur_implicit_order_index, end |-> r.end]
    /\ UNCHANGED orders
    /\ UNCHANGED <<bvars, cvars>>

IncrementRealOrderIndexAct ==
    /\ Returned
    /\ \E r \in {IncrementRealOrderIndex(orders, cur_real_order_index,
                                         cur_implicit_order_index)} :
          /\ cur_real_order_index' = r.real
          /\ cur_implicit_order_index' = r.implicit
          /\ ordLast' = [op |-> "IncrementRealOrderIndex", real |-> cur_real_order_index,
                         implicit |-> cur_implicit_order_index, end |-> r.end]
    /\ UNCHANGED orders
    /\ UNCHANGED <<bvars, cvars>>

\* Everything but the vehicle is as after construction.
NoScreen ==
    /\ IConsoleGUIInit
    /\ vid = SceneVid /\ animb = SceneAnim
    /\ animNull = FALSE /\ disableAnim = FALSE
    /\ buf = << >> /\ cap = NoCap /\ fault = "none" /\ last = NoOp

\* The two functions that set cur_real_order_index, on every order list and
\* every pair of indices, valid or not.
InitOrderIndex ==
    /\ NoScreen
    /\ orders \in OrderLists
    /\ cur_real_order_index \in 0 .. MaxOrders
    /\ cur_implicit_order_index \in 0 .. MaxOrders
    /\ ordLast = NoOp

NextOrderIndex == SkipToNextRealOrderIndexAct \/ UpdateRealOrderIndexAct

SpecOrderIndex == InitOrderIndex /\ [][NextOrderIndex]_vars

\* A vehicle with a fixed order list and both indices at 0.
InitVehicle ==
    /\ NoScreen
    /\ orders \in OrderLists
    /\ cur_real_order_index = 0
    /\ cur_implicit_order_index = 0
    /\ ordLast = NoOp

NextVehicle ==
    \/ IncrementImplicitOrderIndexAct
    \/ IncrementRealOrderIndexAct
    \/ UpdateRealOrderIndexAct

SpecVehicle == InitVehicle /\ [][NextVehicle]_vars

(***************************************************************************)
(* What the claims about Draw speak of: the last draw request, the         *)
(* rectangle it draws and the sprite pixel behind each of its pixels.      *)
(***************************************************************************)
IsDraw == last.op = "Draw"
IsAnimDraw == last.op = "Draw" /\ last.path = "anim" /\ fault = "none"

\* The pixels (x, y) of the rectangle of a request, 0-based, and their offset
\* on the screen.
RectOf(arg) == (0 .. arg.w - 1) \X (0 .. arg.h - 1)
RectOff(arg, xy) == (DrawTop(arg.h) + xy[2]) * Pitch + DrawLeft(arg.w) + xy[1]
DrawnRect == RectOf(last.arg)
DstOff(xy) == RectOff(last.arg, xy)

\* The source pixel [a, m, c] drawn at pixel (x, y) of the rectangle.
SrcOf(xy) == SrcPixel(last.arg.pat, last.arg.j + xy[1] + 1, last.arg.k + xy[2] + 1)

Unchanged(off) == vid[off] = last.pre.vid[off] /\ animb[off] = last.pre.animb[off]

\* The alpha class of sprite pixel x (1-based) of the first drawn line.
FirstLineClass(x) == last.arg.pat[((x + last.arg.k - 1) % SprW) + 1]

\* C3: in every mode, a fully transparent source pixel (a == 0) leaves the
\* colour and the animation byte of the destination pixel it covers as they
\* were, wherever its run lies with respect to the clip boundaries.
C3_TransparentRunNoOp ==
    IsAnimDraw =>
        \A xy \in DrawnRect : SrcOf(xy).a = 0 => Unchanged(DstOff(xy))

\* C3 witness: a transparent run straddles the left clip boundary, is
\* followed by drawn pixels that are not transparent, and the draw changed
\* the screen.
C3_Witness ==
    /\ IsAnimDraw
    /\ last.arg.j >= 1
    /\ FirstLineClass(last.arg.j) = "T"
    /\ FirstLineClass(last.arg.j + 1) = "T"
    /\ \E xy \in DrawnRect : xy[2] = 0 /\ SrcOf(xy).a # 0
    /\ \E xy \in DrawnRect : ~Unchanged(DstOff(xy))

(***************************************************************************)
(* The unclipped draw of the whole sprite, on a destination of the size of *)
(* the sprite that holds, under every sprite pixel, what the screen holds  *)
(* there when sprite pixel (j, k) lies on the origin of the rectangle of   *)
(* the request (and black where that is off the screen).                   *)
(***************************************************************************)
UnderSprite(arg, b, fill) ==
    [o \in 0 .. SprW * SprH - 1 |->
        LET x == DrawLeft(arg.w) - arg.j + (o % SprW)
            y == DrawTop(arg.h) - arg.k + (o \div SprW)
        IN  IF x >= 0 /\ x < Pitch /\ y >= 0 /\ y < ScrH THEN b[y * Pitch + x] ELSE fill]

\* Offset, in that destination, of pixel (x, y) of the rectangle.
FullOff(arg, xy) == (arg.k + xy[2]) * SprW + arg.j + xy[1]

\* The request that draws the whole sprite there.
FullBp(arg) ==
    [DrawParams(arg.pat, 0, 0, SprW, SprH) EXCEPT !.pitch = SprW, !.left = 0, !.top = 0]

UnclippedDraw(arg, v, a) ==
    DrawMode(arg.mode, FullBp(arg), UnderSprite(arg, v, BlackColour), UnderSprite(arg, a, 0))

\* C4: clip correctness.  Every animated draw leaves in the drawn rectangle
\* the colours and animation bytes the unclipped draw of the whole sprite
\* leaves at the same positions.
C4_ClipCorrect ==
    [][(last'.op = "Draw" /\ last'.path = "anim") =>
          /\ fault' = "none"
          /\ \E full \in {UnclippedDraw(last'.arg, vid, animb)} :
                /\ full.fault = "none"
                /\ \A xy \in RectOf(last'.arg) :
                      /\ vid'[RectOff(last'.arg, xy)] = full.vid[FullOff(last'.arg, xy)]
                      /\ animb'[RectOff(last'.arg, xy)] = full.animb[FullOff(last'.arg, xy)]
      ]_vars

\* C4 witness: a clipped draw in which a run that is not transparent
\* straddles the left clip boundary (goto draw) and another one the right
\* clip boundary, and which changed the screen.
C4_Witness ==
    /\ IsAnimDraw
    /\ last.arg.j >= 1
    /\ last.arg.j + last.arg.w < SprW
    /\ FirstLineClass(last.arg.j) # "T"
    /\ FirstLineClass(last.arg.j + 1) = FirstLineClass(last.arg.j)
    /\ FirstLineClass(last.arg.j + last.arg.w) # "T"
    /\ FirstLineClass(last.arg.j + last.arg.w + 1) = FirstLineClass(last.arg.j + last.arg.w)
    /\ FirstLineClass(last.arg.j + last.arg.w) # FirstLineClass(last.arg.j)
    /\ \E xy \in DrawnRect : ~Unchanged(DstOff(xy))

\* C5: in Normal mode a destination pixel composed from a translucent source
\* pixel (0 < a < 255) has animation byte 0 afterwards, whatever m is.
C5_NormalBlendClearsAnim ==
    (IsAnimDraw /\ last.arg.mode = "Normal") =>
        \A xy \in DrawnRect :
            (SrcOf(xy).a > 0 /\ SrcOf(xy).a < 255) => animb[DstOff(xy)] = 0

\* A pass of a composing loop was made with both cursors on the pixel at
\* off, and the pass after it in the same run is made one pixel further.
ComposedAt(off) ==
    \E i \in 1 .. Len(last.log) :
        /\ last.log[i].dst = off
        /\ last.log[i].anim = off
        /\ last.log[i].n > 1 =>
              /\ i < Len(last.log)
              /\ last.log[i + 1].dst = off + 1
              /\ last.log[i + 1].anim = off + 1
              /\ last.log[i + 1].n = last.log[i].n - 1

\* The source pixel has m != 0 and the remap table maps m to 0.
RemapsToZero(xy) ==
    /\ SrcOf(xy).a # 0
    /\ SrcOf(xy).m # 0
    /\ RemapEntry(RemapId(last.arg.pat), SrcOf(xy).m) = 0

\* C6: in ColourRemap and CrashRemap mode a source pixel with m != 0 and
\* remap[m] = 0, opaque or translucent, leaves the destination colour and
\* animation byte as they were, and the cursors advance by one pixel.
C6_RemapZeroNoOp ==
    (IsAnimDraw /\ last.arg.mode \in {"ColourRemap", "CrashRemap"}) =>
        \A xy \in DrawnRect :
            RemapsToZero(xy) => Unchanged(DstOff(xy)) /\ ComposedAt(DstOff(xy))

\* C6 witness: a remap draw with an opaque and a translucent pixel whose
\* remap entry is 0, the first followed in its run by a pixel that is drawn.
C6_Witness ==
    /\ IsAnimDraw
    /\ last.arg.mode \in {"ColourRemap", "CrashRemap"}
    /\ \E xy \in DrawnRect :
          /\ RemapsToZero(xy) /\ SrcOf(xy).a = 255
          /\ xy[1] + 1 < last.arg.w
          /\ SrcOf(<<xy[1] + 1, xy[2]>>).a = 255
          /\ ~Unchanged(DstOff(<<xy[1] + 1, xy[2]>>))
    /\ \E xy \in DrawnRect : RemapsToZero(xy) /\ SrcOf(xy).a < 255

\* C7: in Normal mode an opaque source pixel (a == 255) writes its colour
\* unchanged and sets the animation byte to its m.
C7_NormalOpaque ==
    (IsAnimDraw /\ last.arg.mode = "Normal") =>
        \A xy \in DrawnRect :
            SrcOf(xy).a = 255 =>
                /\ vid[DstOff(xy)] = SrcOf(xy).c
                /\ animb[DstOff(xy)] = SrcOf(xy).m

\* C7 witness: the unclipped draw of one line of the wholly opaque sprite,
\* whose m are all 0: the line holds the source colours in order, which are
\* not all the same, and animation bytes 0 where some were not 0 before; and
\* another draw has set an animation byte to an m that is not 0.
C7_WitnessRun ==
    /\ IsAnimDraw
    /\ last.arg.mode = "Normal"
    /\ \A x \in 1 .. SprW : last.arg.pat[x] = "O"
    /\ last.arg.j = 0 /\ last.arg.w = SprW /\ last.arg.k = 0 /\ last.arg.h = 1
    /\ \A xy \in DrawnRect :
          /\ vid[DstOff(xy)] = SrcColour(xy[1] + 1 + SprW, 255)
          /\ animb[DstOff(xy)] = 0
    /\ vid[DstOff(<<0, 0>>)] # vid[DstOff(<<1, 0>>)]
    /\ \E xy \in DrawnRect : last.pre.animb[DstOff(xy)] # 0

C7_WitnessM ==
    /\ IsAnimDraw
    /\ last.arg.mode = "Normal"
    /\ \E xy \in DrawnRect :
          /\ SrcOf(xy).a = 255
          /\ SrcOf(xy).m # 0
          /\ animb[DstOff(xy)] # last.pre.animb[DstOff(xy)]

\* C8: in BlackRemap mode every destination pixel under a source pixel that
\* is not fully transparent ends black with animation byte 0.
C8_BlackRemap ==
    (IsAnimDraw /\ last.arg.mode = "BlackRemap") =>
        \A xy \in DrawnRect :
            SrcOf(xy).a # 0 =>
                /\ vid[DstOff(xy)] = BlackColour
                /\ animb[DstOff(xy)] = 0

\* C8 witness: a BlackRemap draw that covers, with an opaque and with a
\* translucent pixel, pixels that held a non-zero animation byte.
C8_Witness ==
    /\ IsAnimDraw
    /\ last.arg.mode = "BlackRemap"
    /\ \E xy \in DrawnRect : SrcOf(xy).a = 255 /\ last.pre.animb[DstOff(xy)] # 0
    /\ \E xy \in DrawnRect :
          SrcOf(xy).a \in 1 .. 254 /\ SrcOf(xy).m # 0 /\ last.pre.animb[DstOff(xy)] # 0

\* C9: when _screen_disable_anim is set or the animation buffer is null, the
\* draw goes to the blitter without animation in every mode, the mode
\* dispatch of the animated blitter is not entered and the animation buffer
\* is neither read nor written.
C9_DelegatesWithoutAnim ==
    (IsDraw /\ (disableAnim \/ animNull)) =>
        /\ last.path = "32bpp"
        /\ last.arg.mode \in Modes => fault = "none"
        /\ last.log = << >>
        /\ animb = last.pre.animb

\* C9 witness: a draw with a null animation buffer and animation not
\* disabled, and one with animation disabled, that changed the colour buffer.
C9_WitnessNull ==
    IsDraw /\ animNull /\ ~disableAnim /\ last.path = "32bpp" /\ vid # last.pre.vid /\ fault = "none"

C9_WitnessDisabled ==
    IsDraw /\ disableAnim /\ ~animNull /\ last.path = "32bpp" /\ vid # last.pre.vid

\* C11: a draw request whose mode is none of the six blitter modes aborts
\* (NOT_REACHED) and leaves every colour and every animation byte as it was;
\* no pass of a composing loop is made.
C11_UnknownModeAborts ==
    (IsDraw /\ last.arg.mode \notin Modes) =>
        /\ fault = "abort"
        /\ vid = last.pre.vid
        /\ animb = last.pre.animb
        /\ last.log = << >>

\* C11 witness: a request with an unknown mode reached the switch of the
\* animated blitter, on a screen with an animation buffer, and aborted.
C11_Witness ==
    /\ IsDraw /\ last.arg.mode \notin Modes
    /\ ~disableAnim /\ ~animNull
    /\ last.path = "none" /\ fault = "abort"

\* The source pixel is translucent.
Translucent(xy) == SrcOf(xy).a > 0 /\ SrcOf(xy).a < 255

\* C12: in ColourRemap, CrashRemap and Transparent mode every destination
\* pixel whose colour is written from a translucent source pixel has
\* animation byte 0 afterwards, whatever it held and whatever the non-zero
\* remapped value is.  (A pixel with m != 0 and remap[m] = 0 is not written.)
C12_BlendClearsAnim ==
    (IsAnimDraw /\ last.arg.mode \in {"ColourRemap", "CrashRemap", "Transparent"}) =>
        \A xy \in DrawnRect :
            (Translucent(xy) /\ (last.arg.mode = "Transparent" \/ ~RemapsToZero(xy)))
                => animb[DstOff(xy)] = 0

\* C12 witness: a remap draw blends a translucent pixel with m != 0 and
\* remap[m] != 0 over a pixel whose animation byte was not 0; and a
\* Transparent draw does so as well.
C12_Witness ==
    /\ IsAnimDraw
    /\ last.arg.mode \in {"ColourRemap", "CrashRemap"}
    /\ \E xy \in DrawnRect :
          /\ Translucent(xy) /\ SrcOf(xy).m # 0 /\ ~RemapsToZero(xy)
          /\ last.pre.animb[DstOff(xy)] # 0
          /\ vid[DstOff(xy)] # last.pre.vid[DstOff(xy)]

C12_WitnessTransparent ==
    /\ IsAnimDraw
    /\ last.arg.mode = "Transparent"
    /\ \E xy \in DrawnRect :
          /\ Translucent(xy) /\ SrcOf(xy).m # 0
          /\ last.pre.animb[DstOff(xy)] # 0
          /\ vid[DstOff(xy)] # last.pre.vid[DstOff(xy)]

\* C13: in TransparentRemap mode, under every source pixel that is not fully
\* transparent: a destination pixel with a non-zero animation byte gets the
\* byte remap[old byte] and keeps its colour; one with animation byte 0 gets
\* the palette colour of remap[nearest palette index of its colour] and
\* keeps animation byte 0.  Neither depends on the source colour or m.
C13_TransparentRemap ==
    (IsAnimDraw /\ last.arg.mode = "TransparentRemap") =>
        \A xy \in DrawnRect :
            SrcOf(xy).a # 0 =>
                LET o == DstOff(xy)
                    old == last.pre.animb[o]
                    remap == RemapOf(last.arg.pat)
                IN  IF old # 0
                    THEN animb[o] = remap[old] /\ vid[o] = last.pre.vid[o]
                    ELSE /\ animb[o] = 0
                         /\ vid[o] = LookupColourInPalette(
                                         remap[GetNearestColourIndex(last.pre.vid[o])])

\* C13 witness: a TransparentRemap draw remaps an animation byte to another
\* value under a source pixel whose m remaps to something else, and replaces
\* the colour of a pixel whose animation byte is 0.
C13_Witness ==
    /\ IsAnimDraw
    /\ last.arg.mode = "TransparentRemap"
    /\ \E xy \in DrawnRect :
          /\ SrcOf(xy).a # 0
          /\ last.pre.animb[DstOff(xy)] # 0
          /\ animb[DstOff(xy)] # last.pre.animb[DstOff(xy)]
          /\ animb[DstOff(xy)] # RemapOf(last.arg.pat)[SrcOf(xy).m]
    /\ \E xy \in DrawnRect :
          /\ SrcOf(xy).a # 0
          /\ last.pre.animb[DstOff(xy)] = 0
          /\ vid[DstOff(xy)] # last.pre.vid[DstOff(xy)]

\* C14: in Transparent mode, under an opaque source pixel the destination
\* colour becomes MakeTransparent(b, 3, 4), b being the previous colour when
\* the animation byte is 0 and the brightness-only colour otherwise; the
\* animation byte stays; the source colour and m play no part.
C14_TransparentOpaque ==
    (IsAnimDraw /\ last.arg.mode = "Transparent") =>
        \A xy \in DrawnRect :
            SrcOf(xy).a = 255 =>
                LET o == DstOff(xy)
                    b == IF last.pre.animb[o] # 0
                         THEN MkColour(GetColourBrightness(last.pre.vid[o]), 0, 0, 255)
                         ELSE last.pre.vid[o]
                IN  /\ vid[o] = MakeTransparent(b, 3, 4)
                    /\ animb[o] = last.pre.animb[o]

\* C14 witness: a Transparent draw darkens, under opaque source pixels, a
\* pixel with a non-zero animation byte and one with animation byte 0.
C14_Witness ==
    /\ IsAnimDraw
    /\ last.arg.mode = "Transparent"
    /\ \E xy \in DrawnRect :
          /\ SrcOf(xy).a = 255 /\ last.pre.animb[DstOff(xy)] # 0
          /\ vid[DstOff(xy)] # last.pre.vid[DstOff(xy)]
    /\ \E xy \in DrawnRect :
          /\ SrcOf(xy).a = 255 /\ last.pre.animb[DstOff(xy)] = 0
          /\ vid[DstOff(xy)] # last.pre.vid[DstOff(xy)]

\* C15: in ColourRemap and CrashRemap mode an opaque source pixel with
\* m != 0 and remap[m] = r != 0 writes the source colour and animation byte
\* r; with m = 0 it writes the source colour (darkened by MakeDark in
\* CrashRemap) and animation byte 0.
C15_RemapOpaque ==
    (IsAnimDraw /\ last.arg.mode \in {"ColourRemap", "CrashRemap"}) =>
        \A xy \in DrawnRect :
            SrcOf(xy).a = 255 =>
                LET o == DstOff(xy)
                    m == SrcOf(xy).m
                    r == RemapOf(last.arg.pat)[m]
                IN  /\ (m # 0 /\ r # 0) => (vid[o] = SrcOf(xy).c /\ animb[o] = r)
                    /\ m = 0 =>
                          /\ animb[o] = 0
                          /\ vid[o] = IF last.arg.mode = "CrashRemap"
                                       THEN MakeDark(SrcOf(xy).c) ELSE SrcOf(xy).c

\* C15 witness: a CrashRemap draw writes a darkened colour for an opaque
\* pixel with m = 0 over a non-zero animation byte, and a remap draw writes
\* a remapped value r != m.
C15_WitnessDark ==
    /\ IsAnimDraw
    /\ last.arg.mode = "CrashRemap"
    /\ \E xy \in DrawnRect :
          /\ SrcOf(xy).a = 255 /\ SrcOf(xy).m = 0
          /\ vid[DstOff(xy)] # SrcOf(xy).c
          /\ last.pre.animb[DstOff(xy)] # 0

C15_Witness ==
    /\ IsAnimDraw
    /\ last.arg.mode \in {"ColourRemap", "CrashRemap"}
    /\ \E xy \in DrawnRect :
          /\ SrcOf(xy).a = 255 /\ SrcOf(xy).m # 0
          /\ animb[DstOff(xy)] # SrcOf(xy).m
          /\ animb[DstOff(xy)] # 0
          /\ animb[DstOff(xy)] # last.pre.animb[DstOff(xy)]

(***************************************************************************)
(* Claims about the operations on the screen buffers.                      *)
(***************************************************************************)
\* C1: once CopyToBuffer has captured a rectangle, a later CopyFromBuffer
\* with the same arguments leaves every colour and animation byte of the
\* rectangle as it was at capture time, whatever was written in between;
\* with no write in between, both buffers are as they were before.
C1_CaptureRestore ==
    (last.op = "CopyFrom" /\ ~animNull /\ ~disableAnim) =>
        /\ fault = "none"
        /\ \A o \in RectPixels(cap.video, cap.w, cap.h) :
              vid[o] = cap.vid[o] /\ animb[o] = cap.animb[o]
        /\ ~cap.dirty => (vid = cap.vid /\ animb = cap.animb)

\* C1 witness: a rectangle of at least 2 x 2 pixels is restored after a
\* write changed a colour and an animation byte in it.
C1_Witness ==
    /\ last.op = "CopyFrom" /\ fault = "none" /\ ~animNull
    /\ cap.dirty /\ cap.w >= 2 /\ cap.h >= 2
    /\ \E o \in RectPixels(cap.video, cap.w, cap.h) :
          /\ last.pre.vid[o] # vid[o]
          /\ last.pre.animb[o] # animb[o]
          /\ o >= cap.video + Pitch

\* The pixels (x, y) of the scrolled rectangle that have their source in it.
ScrolledPixels ==
    {xy \in (last.arg.left .. last.arg.left + last.arg.width - 1)
            \X (last.arg.top .. last.arg.top + last.arg.height - 1) :
        /\ xy[1] - last.arg.scroll_x >= last.arg.left
        /\ xy[1] - last.arg.scroll_x < last.arg.left + last.arg.width
        /\ xy[2] - last.arg.scroll_y >= last.arg.top
        /\ xy[2] - last.arg.scroll_y < last.arg.top + last.arg.height}

\* C2: after ScrollBuffer of a rectangle of the screen (video being
\* _screen.dst_ptr), every pixel of the rectangle whose source lies in the
\* rectangle holds the colour and the animation byte its source held before,
\* for every sign of scroll_x and scroll_y.
C2_ScrollConserves ==
    (last.op = "Scroll" /\ last.arg.video = 0 /\ ~animNull /\ ~disableAnim) =>
        /\ fault = "none"
        /\ \A xy \in ScrolledPixels :
              LET o == xy[2] * Pitch + xy[1]
                  s == (xy[2] - last.arg.scroll_y) * Pitch + xy[1] - last.arg.scroll_x
              IN  vid[o] = last.pre.vid[s] /\ animb[o] = last.pre.animb[s]

\* C2 witness: a scroll down and to the left whose source and destination
\* windows overlap in more than one row, and that moved colours and
\* animation bytes.
C2_Witness ==
    /\ last.op = "Scroll" /\ last.arg.video = 0 /\ fault = "none" /\ ~animNull
    /\ last.arg.scroll_x < 0 /\ last.arg.scroll_y > 0
    /\ last.arg.height - last.arg.scroll_y >= 2
    /\ last.arg.width + last.arg.scroll_x >= 2
    /\ \E xy \in ScrolledPixels :
          /\ vid[xy[2] * Pitch + xy[1]] # last.pre.vid[xy[2] * Pitch + xy[1]]
          /\ animb[xy[2] * Pitch + xy[1]] # last.pre.animb[xy[2] * Pitch + xy[1]]

\* C10: with a null animation buffer (and _screen_disable_anim false) every
\* operation still has its effect on the colour buffer, and neither goes
\* through the null pointer nor fails an assertion.
C10_NullAnimDegrades ==
    (last.op # "none" /\ animNull /\ ~disableAnim) =>
        /\ fault = "none"
        /\ last.op = "CopyTo" => Len(buf) >= 4 * last.arg.w * last.arg.h
        /\ last.op \in {"SetPixel", "DrawRect"} => vid # last.pre.vid

\* C16: CopyToBuffer of a w x h region writes, for row i, the w colours of
\* screen row i at byte offset 5*w*i of the caller's buffer and the w
\* animation bytes of that row at byte offset 5*w*i + 4*w; it writes
\* 5*w*h = BufferSize(w, h) bytes and none beyond.
C16_BufferLayout ==
    (last.op = "CopyTo" /\ ~animNull /\ ~disableAnim) =>
        LET w == last.arg.w
            h == last.arg.h
        IN  /\ fault = "none"
            /\ Len(buf) = 5 * w * h
            /\ Len(buf) = BufferSize(w, h)
            /\ \A i \in 0 .. h - 1, x \in 0 .. w - 1 :
                  LET o == last.arg.video + i * Pitch + x IN
                  /\ SubSeq(buf, 5 * w * i + 4 * x + 1, 5 * w * i + 4 * x + 4)
                        = WordBytes(vid[o])
                  /\ buf[5 * w * i + 4 * w + x + 1] = animb[o]

\* C16 witness: a capture of at least 2 x 2 pixels whose second row holds a
\* colour and an animation byte that differ from those above them.
C16_Witness ==
    /\ last.op = "CopyTo" /\ ~animNull /\ ~disableAnim /\ fault = "none"
    /\ last.arg.w >= 2 /\ last.arg.h >= 2
    /\ Len(buf) > 0
    /\ vid[last.arg.video + Pitch] # vid[last.arg.video]
    /\ animb[last.arg.video + Pitch] # animb[last.arg.video]
    /\ WordBytes(vid[last.arg.video])[1] # animb[last.arg.video]

\* The offsets a move reads and the offsets it writes.
MovedFrom(win) ==
    {win.src + r * win.pitch + c : r \in 0 .. win.th - 1, c \in 0 .. win.tw - 1}
MovedTo(win) ==
    {win.dst + r * win.pitch + c : r \in 0 .. win.th - 1, c \in 0 .. win.tw - 1}

\* The windows of the last ScrollBuffer: of the animation buffer, by offset
\* from its start, and of the colour buffer, by offset from _screen.dst_ptr.
AnimWindow ==
    ScrollWindow(0, last.arg.left, last.arg.top, last.arg.width, last.arg.height,
                 last.arg.scroll_x, last.arg.scroll_y)
ColourWindow ==
    ScrollWindow(last.arg.video, last.arg.left, last.arg.top, last.arg.width,
                 last.arg.height, last.arg.scroll_x, last.arg.scroll_y)

\* C19: for every video inside the screen, ScrollBuffer reads and writes the
\* same pixel offsets in the animation buffer as in the colour buffer, so
\* that every pixel written holds the colour and the animation byte of one
\* and the same source pixel.
C19_SameGeometry ==
    (last.op = "Scroll" /\ ~animNull /\ ~disableAnim) =>
        /\ fault = "none"
        /\ MovedFrom(AnimWindow) = MovedFrom(ColourWindow)
        /\ MovedTo(AnimWindow) = MovedTo(ColourWindow)
        /\ \A o \in MovedTo(ColourWindow) :
              LET s == o - ColourWindow.dst + ColourWindow.src
              IN  vid[o] = last.pre.vid[s] /\ animb[o] = last.pre.animb[s]

(***************************************************************************)
(* Claims about the cursors of Draw.                                       *)
(***************************************************************************)
\* The offsets of the pixels of the rectangle of the last request.
DrawnOffsets == {DstOff(xy) : xy \in DrawnRect}

\* C18: every request with skip_left + width <= sprite width and
\* skip_top + height <= sprite height, in every mode, composes inside the
\* rectangle [left, left + width) x [top, top + height) only: every pass of a
\* composing loop is made on a pixel of the rectangle, and no colour and no
\* animation byte outside it is modified, also when the last run of a row
\* is longer than what is left of the width.
C18_StaysInRectangle ==
    (IsDraw /\ last.path = "anim") =>
        /\ fault = "none"
        /\ \A i \in 1 .. Len(last.log) : last.log[i].dst \in DrawnOffsets
        /\ \A off \in 0 .. ScrSize - 1 : off \notin DrawnOffsets => Unchanged(off)

\* C18 witness: in a draw of two rows the first row ends inside a run that
\* is not transparent and goes on beyond the right clip boundary, the pixel
\* right of the rectangle is on the screen, and the last pixel of the row
\* was changed.
C18_Witness ==
    /\ IsAnimDraw
    /\ last.arg.h = 2 /\ last.arg.w >= 2
    /\ last.arg.j + last.arg.w < SprW
    /\ SrcOf(<<last.arg.w - 1, 0>>).a # 0
    /\ AlphaClass(SrcOf(<<last.arg.w - 1, 0>>).a) = AlphaClass(SrcOf(<<last.arg.w, 0>>).a)
    /\ DrawLeft(last.arg.w) + last.arg.w < Pitch
    /\ ~Unchanged(DstOff(<<last.arg.w - 1, 0>>))

\* C20: lockstep of the cursors.  At every pass of a composing loop of the
\* animated draw the animation cursor is as far from the start of the
\* animation buffer as the colour cursor is from _screen.dst_ptr, in every
\* mode, for every skip_left and in every row.
C20_Lockstep ==
    (IsDraw /\ last.path = "anim") =>
        /\ fault = "none"
        /\ \A i \in 1 .. Len(last.log) : last.log[i].anim = last.log[i].dst

\* C20 witness: a draw of two rows with skip_left >= 2 in whose first row a
\* transparent run ends left of the clip boundary and a run that is not
\* transparent straddles it (goto draw); passes were made in both rows.
C20_Witness ==
    /\ IsAnimDraw
    /\ last.arg.h = 2 /\ last.arg.j >= 2
    /\ SrcPixel(last.arg.pat, last.arg.j - 1, last.arg.k + 1).a = 0
    /\ SrcPixel(last.arg.pat, last.arg.j, last.arg.k + 1).a # 0
    /\ AlphaClass(SrcPixel(last.arg.pat, last.arg.j, last.arg.k + 1).a)
          = AlphaClass(SrcOf(<<0, 0>>).a)
    /\ \E i \in 1 .. Len(last.log) : last.log[i].dst = DstOff(<<0, 0>>)
    /\ \E i \in 1 .. Len(last.log) :
          last.log[i].dst \in {DstOff(<<x, 1>>) : x \in 0 .. last.arg.w - 1}

\* And one in whose first row a transparent run straddles the left clip
\* boundary and is followed by a pass of a composing loop.
C20_WitnessTransparent ==
    /\ IsAnimDraw
    /\ last.arg.j >= 1 /\ last.arg.w >= 2
    /\ SrcPixel(last.arg.pat, last.arg.j, last.arg.k + 1).a = 0
    /\ SrcOf(<<0, 0>>).a = 0
    /\ \E i \in 1 .. Len(last.log) :
          last.log[i].dst \in {DstOff(<<x, 0>>) : x \in 1 .. last.arg.w - 1}

(***************************************************************************)
(* Claims about the console.                                               *)
(***************************************************************************)

\* C21: every draw of the animated blitter ends without a fault, the counter n
\* is at least 1 at every pass of a do ... while (--n != 0) loop, at most
\* width * height pixels are composed, and a request of zero width or zero
\* height composes no pixel and leaves both buffers as they were.
C21_DrawTerminates ==
    (IsDraw /\ last.path = "anim" /\ ~animNull) =>
        /\ fault = "none"
        /\ \A i \in 1 .. Len(last.log) : last.log[i].n >= 1
        /\ Len(last.log) <= last.arg.w * last.arg.h
        /\ (last.arg.w = 0 \/ last.arg.h = 0) =>
               (last.log = << >> /\ vid = last.pre.vid /\ animb = last.pre.animb)


\* The offsets SetPixel, DrawRect or DrawLine covers.
Covered ==
    IF last.op = "SetPixel" THEN {last.arg.x + last.arg.y * Pitch}
    ELSE IF last.op = "DrawRect"
    THEN {last.arg.video + y * Pitch + x : x \in 0 .. last.arg.w - 1, y \in 0 .. last.arg.h - 1}
    ELSE {last.arg.video + q[1] + q[2] * Pitch :
             q \in LinePixels(last.arg.x, last.arg.y, last.arg.x2, last.arg.y2)}

\* C22: with animation enabled, SetPixel, DrawRect and DrawLine leave black in
\* the colour buffer and colour.p in the animation byte of the same offset at
\* every pixel they cover; DrawRect (height >= 1) changes the pixels of its
\* width x height rectangle at video and nothing outside it.
C22_PlainDrawing ==
    (last.op \in {"SetPixel", "DrawRect", "DrawLine"} /\ ~animNull /\ ~disableAnim) =>
        /\ fault = "none"
        /\ \A o \in Covered : vid[o] = BlackColour /\ animb[o] = last.arg.p
        /\ last.op = "DrawRect" =>
               /\ Cardinality(Covered) = last.arg.w * last.arg.h
               /\ \A o \in (0 .. ScrSize - 1) \ Covered :
                      vid[o] = last.pre.vid[o] /\ animb[o] = last.pre.animb[o]

\* A line that does not start at the screen origin and is neither horizontal
\* nor vertical.
C22_Witness ==
    /\ last.op = "DrawLine" /\ ~animNull /\ ~disableAnim
    /\ last.arg.video # 0
    /\ last.arg.x # last.arg.x2 /\ last.arg.y # last.arg.y2
    /\ Cardinality(Covered) >= 2
    /\ \A o \in Covered : animb[o] # last.pre.animb[o]

\* A rectangle away from the screen origin, with pixels outside it.
C22_WitnessRect ==
    /\ last.op = "DrawRect" /\ ~animNull /\ ~disableAnim
    /\ last.arg.video # 0
    /\ Cardinality(Covered) >= 4
    /\ \E o \in Covered : animb[o] # last.pre.animb[o]

\* A pixel set away from the screen origin.
C22_WitnessPixel ==
    /\ last.op = "SetPixel" /\ ~animNull /\ ~disableAnim
    /\ last.arg.x > 0 /\ last.arg.y > 0


\* C23: a run of TruncateBuffer removes a line exactly when, after the ageing
\* of this run, the line's position (from 1) exceeds console_backlog_length
\* and its time exceeds console_backlog_timeout; every line that stays has
\* its time increased by exactly one; the run returns true exactly when it
\* removed a line.
C23_Truncate ==
    (conLast.op = "TruncateBuffer") =>
        LET pre == conLast.buffer
        IN  /\ Len(iconsole_buffer) <= Len(pre)
            /\ \A i \in 1 .. Len(pre) :
                  (i > Len(iconsole_buffer)) <=>
                      (i > console_backlog_length
                          /\ ((pre[i] + 1) % TimeWrap) > console_backlog_timeout)
            /\ \A i \in 1 .. Len(iconsole_buffer) : iconsole_buffer[i] = pre[i] + 1
            /\ conLast.ret <=> (Len(iconsole_buffer) < Len(pre))


\* C24: the command history holds at most ICON_HISTORY_SIZE entries, none of
\* them empty, no two neighbours equal, the newest at the front; Return on a
\* command line that is empty or only whitespace hands no command to
\* execution and leaves the history as it was; Return on a command equal to
\* the newest entry hands that command to execution and adds nothing.
C24_HistoryAdd ==
    /\ Len(iconsole_history) <= ICON_HISTORY_SIZE
    /\ \A i \in 1 .. Len(iconsole_history) : iconsole_history[i] # << >>
    /\ \A i \in 1 .. Len(iconsole_history) - 1 : iconsole_history[i] # iconsole_history[i + 1]
    /\ (conLast.op = "Return") =>
          LET cmd == StripLeft(conLast.text)
          IN  /\ cmd = << >> =>
                    /\ fault = "none"
                    /\ ~conLast.ret.has
                    /\ iconsole_history = conLast.history
              /\ cmd # << >> =>
                    /\ conLast.ret.has /\ conLast.ret.cmd = cmd
                    /\ Head(iconsole_history) = cmd
              /\ (cmd # << >> /\ conLast.history # << >> /\ Head(conLast.history) = cmd) =>
                    iconsole_history = conLast.history

\* C25: _iconsole_historypos is at least -1 and at most the history size - 1
\* in every state; Up at the oldest entry stays on it, and a navigation that
\* ends at -1 leaves the command line empty.
C25_HistoryPos ==
    /\ iconsole_historypos >= -1
    /\ iconsole_historypos <= Len(iconsole_history) - 1
    /\ (conLast.op = "Navigate" /\ conLast.history # << >>) =>
          /\ (conLast.direction = 1 /\ conLast.pos = Len(conLast.history) - 1) =>
                /\ iconsole_historypos = conLast.pos
                /\ iconsole_cmdline = iconsole_history[Len(iconsole_history)]
          /\ iconsole_historypos = -1 => iconsole_cmdline = << >>
          /\ iconsole_historypos # -1 =>
                iconsole_cmdline = iconsole_history[iconsole_historypos + 1]

\* Up is pressed on the oldest of ICON_HISTORY_SIZE entries.
C25_Witness ==
    /\ conLast.op = "Navigate" /\ conLast.direction = 1
    /\ Len(conLast.history) = ICON_HISTORY_SIZE
    /\ conLast.pos = ICON_HISTORY_SIZE - 1
    /\ iconsole_historypos = ICON_HISTORY_SIZE - 1

\* Down is pressed on the newest entry and ends at -1.
C25_WitnessDown ==
    /\ conLast.op = "Navigate" /\ conLast.direction = -1
    /\ conLast.pos = 0
    /\ iconsole_historypos = -1


\* C26: Scroll(amount) with amount < 0 lowers the scroll position by |amount|
\* and stops at 0; with amount >= 0 the position afterwards is at most
\* max_scroll (0 when more lines are visible than the backlog holds, backlog
\* size + 1 - visible lines otherwise), also from a position above max_scroll.
C26_ScrollSaturates ==
    (conLast.op = "Scroll") =>
        LET visible == conWindows[1].height \div LineHeight
            size == Len(iconsole_buffer)
        IN  /\ scroll >= 0
            /\ conLast.amount < 0 =>
                  scroll = Max(conLast.scroll + conLast.amount, 0)
            /\ conLast.amount >= 0 =>
                  scroll <= (IF visible > size THEN 0 ELSE size + 1 - visible)

\* A scroll towards older lines from a position above max_scroll.
C26_Witness ==
    /\ conLast.op = "Scroll" /\ conLast.amount > 0
    /\ (conWindows[1].height \div LineHeight) <= Len(iconsole_buffer)
    /\ conLast.scroll > Len(iconsole_buffer) + 1 - (conWindows[1].height \div LineHeight)
    /\ scroll < conLast.scroll

\* A scroll towards newer lines by more than the position.
C26_WitnessZero ==
    /\ conLast.op = "Scroll" /\ conLast.amount < -1
    /\ conLast.scroll > 0 /\ conLast.scroll < -conLast.amount
    /\ scroll = 0

\* C27: a console window exists exactly when _iconsole_mode is not
\* ICONSOLE_CLOSED, there is at most one, and IConsoleSwitch leads from
\* ICONSOLE_CLOSED to ICONSOLE_OPENED and from ICONSOLE_OPENED or
\* ICONSOLE_FULL to ICONSOLE_CLOSED.
C27_OneWindow ==
    /\ (conWindows # << >>) <=> (iconsole_mode # "ICONSOLE_CLOSED")
    /\ Len(conWindows) <= 1
    /\ (conLast.op = "IConsoleSwitch") =>
          /\ conLast.mode = "ICONSOLE_CLOSED" => iconsole_mode = "ICONSOLE_OPENED"
          /\ conLast.mode \in {"ICONSOLE_OPENED", "ICONSOLE_FULL"} =>
                iconsole_mode = "ICONSOLE_CLOSED"

\* IConsoleSwitch closes the console that Ctrl+Return has made full.
C27_Witness ==
    /\ conLast.op = "IConsoleSwitch" /\ conLast.mode = "ICONSOLE_FULL"
    /\ iconsole_mode = "ICONSOLE_CLOSED" /\ conWindows = << >>


\* The order after index `old` that is no implicit order, going round behind
\* the last order.
NextRealOrder(o, old) ==
    LET n == Len(o)
        k == CHOOSE k \in 1 .. n :
                 /\ ~o[((old + k) % n) + 1]
                 /\ \A j \in 1 .. k - 1 : o[((old + j) % n) + 1]
    IN  (old + k) % n

\* C28: UpdateRealOrderIndex and SkipToNextRealOrderIndex return; afterwards
\* cur_real_order_index is below GetNumOrders() and refers to an order that is
\* not implicit when there are manual orders, and is 0 when there are none;
\* cur_implicit_order_index is as before; SkipToNextRealOrderIndex ends at
\* the next order, going round, that is not implicit.
C28_RealOrderIndex ==
    (ordLast.op \in {"UpdateRealOrderIndex", "SkipToNextRealOrderIndex"}) =>
        /\ ordLast.end = "done"
        /\ cur_implicit_order_index = ordLast.implicit
        /\ GetNumManualOrders(orders) > 0 =>
              /\ cur_real_order_index < GetNumOrders(orders)
              /\ ~orders[cur_real_order_index + 1]
        /\ GetNumManualOrders(orders) = 0 => cur_real_order_index = 0
        /\ (ordLast.op = "SkipToNextRealOrderIndex" /\ GetNumManualOrders(orders) > 0
              /\ ordLast.real < GetNumOrders(orders)) =>
              cur_real_order_index = NextRealOrder(orders, ordLast.real)
        /\ (ordLast.op = "UpdateRealOrderIndex" /\ GetNumManualOrders(orders) > 0
              /\ ordLast.real < GetNumOrders(orders) /\ ~orders[ordLast.real + 1]) =>
              cur_real_order_index = ordLast.real

\* SkipToNextRealOrderIndex goes round behind the last order and over
\* implicit orders.
C28_Witness ==
    /\ ordLast.op = "SkipToNextRealOrderIndex" /\ ordLast.end = "done"
    /\ Len(orders) = MaxOrders
    /\ ordLast.real = MaxOrders - 1
    /\ cur_real_order_index = 1
    /\ orders[1]

\* UpdateRealOrderIndex starts from an index that is no order and skips an
\* implicit order.
C28_WitnessUpdate ==
    /\ ordLast.op = "UpdateRealOrderIndex" /\ ordLast.end = "done"
    /\ ordLast.real >= Len(orders)
    /\ cur_real_order_index = 1

\* C29: from both indices at 0, under IncrementImplicitOrderIndex,
\* IncrementRealOrderIndex and UpdateRealOrderIndex, cur_real_order_index is
\* 0 or below GetNumOrders() (the assertion of IncrementImplicitOrderIndex
\* holds), every call returns, and after IncrementImplicitOrderIndex
\* cur_implicit_order_index is 0 or below GetNumOrders() and equals
\* cur_real_order_index or refers to an implicit order.
C29_ImplicitOrderIndex ==
    /\ cur_real_order_index = 0 \/ cur_real_order_index < GetNumOrders(orders)
    /\ ordLast.op # "none" => ordLast.end = "done"
    /\ (ordLast.op = "IncrementImplicitOrderIndex"
          \/ (ordLast.op = "IncrementRealOrderIndex" /\ ordLast.real = ordLast.implicit)) =>
          /\ cur_implicit_order_index = 0 \/ cur_implicit_order_index < GetNumOrders(orders)
          /\ \/ cur_implicit_order_index = cur_real_order_index
             \/ (cur_implicit_order_index < GetNumOrders(orders)
                    /\ orders[cur_implicit_order_index + 1])

\* IncrementImplicitOrderIndex goes round behind the last order of a list
\* without implicit orders and ends at the real order.
C29_Witness ==
    /\ ordLast.op = "IncrementImplicitOrderIndex" /\ ordLast.end = "done"
    /\ Len(orders) = MaxOrders
    /\ \A i \in 1 .. Len(orders) : ~orders[i]
    /\ ordLast.implicit = MaxOrders - 1
    /\ cur_implicit_order_index = 0
    /\ cur_real_order_index = 0

\* IncrementImplicitOrderIndex stops at an implicit order before the real
\* order.
C29_WitnessImplicit ==
    /\ ordLast.op = "IncrementImplicitOrderIndex" /\ ordLast.end = "done"
    /\ cur_implicit_order_index # cur_real_order_index
    /\ orders[cur_implicit_order_index + 1]
    /\ ordLast.real = ordLast.implicit

\* C17: after IConsoleClose() the console is closed, from every mode it can
\* be in: _iconsole_mode is ICONSOLE_CLOSED and no console window remains.
C17_CloseCloses ==
    conLast.op = "IConsoleClose" =>
        iconsole_mode = "ICONSOLE_CLOSED" /\ conWindows = << >>

====
